---------------------------- MODULE Spec2Model ----------------------------
(***************************************************************************)
(* Transcript segmentation pipeline of lecture-lens: timestamp codec,      *)
(* token estimator, VTT parser, lecture-start detector, semantic chunker.  *)
(*                                                                         *)
(* Strings are sequences of one-character strings, so that split, trim,    *)
(* substring, includes and the regular expressions of the source are       *)
(* computed character by character.  IEEE-754 doubles are modelled exactly *)
(* as an integer part and a sequence of fraction bits, rounded to 53       *)
(* significant bits (round to nearest, ties to even) after every           *)
(* operation, as the JavaScript Number type does.                          *)
(***************************************************************************)
EXTENDS Integers, Sequences, FiniteSets, TLC

VARIABLES
    tsIn,       \* codec: the input, a timestamp string or a seconds offset
    tsSecs,     \* codec: result of timestampToSeconds
    tsBack,     \* codec: result of secondsToTimestamp
    tsPc,       \* codec: "start", "mid", "done"
    segments,   \* chunker: the VTTSegment[] argument of chunkVTT
    config,     \* chunker: the ChunkingConfig argument of chunkVTT
    chunks,     \* chunker: the Chunk[] returned by chunkVTT
    chunkSrc,   \* chunker (history): per chunk, the first and last segment appended to it
    chunkPc,    \* chunker: "start", "done"
    content,    \* parser: the argument of parseVTT
    parsed,     \* parser: outcome of parseVTT, thrown error or returned segments
    parsedSrc,  \* parser (history): per segment, its cue line and its text lines
    parsePc,    \* parser: "start", "done"
    introSegs,  \* intro detector: the VTTSegment[] argument of findLectureStart
    lectureStart, \* intro detector: the index findLectureStart returned
    introKept,  \* intro detector: the list filterIntroSegments returned
    introAnalysis, \* intro detector: the object analyzeIntroContent returned
    introPc,    \* intro detector: "start", "done", "filtered", "analyzed"
    results,    \* reranker: the SearchResult[] argument of rerankResults
    query,      \* reranker: the query argument
    options,    \* reranker: the options argument
    now,        \* reranker: the clock new Date() reads, in seconds since the epoch
    reranked,   \* reranker: the list the last call of rerankResults returned
    earlier,    \* reranker (history): the list the call before it returned
    rerankPc,   \* reranker: "start", "once", "twice"
    candidate,  \* validator: the config argument of validateChunkingConfig
    validation, \* validator: the object validateChunkingConfig returned
    validatePc, \* validator: "start", "done"
    envSet,     \* query engine: the Supabase environment variables are set
    _vectorStore,
                \* query engine: the cached vector store (0: null, else the instance)
    _queryEngine,
                \* query engine: the cached query engine (0: null, else the instance)
    engineCalls,
                \* query engine: each call of getQueryEngine, its position and what it returned
    built,      \* query engine (history): instances constructed since the last clearCache
    cleared,    \* query engine (history): the number of calls of clearCache
    pipeIn,     \* pipeline: the vttContent argument of processVTTFile and the number of chunks
    lecture,    \* pipeline: the row of the lecture in the lectures table
    pipePc,     \* pipeline: the position of processVTTFile
    pipeI,      \* pipeline: the variable i of the insert loop
    caught,     \* pipeline: the message of the error the catch block received
    pipeLog     \* pipeline (history): the steps that succeeded and the statuses written

codecVars == <<tsIn, tsSecs, tsBack, tsPc>>

chunkVars == <<segments, config, chunks, chunkSrc, chunkPc>>

parseVars == <<content, parsed, parsedSrc, parsePc>>

introVars == <<introSegs, lectureStart, introKept, introAnalysis, introPc>>

rerankVars == <<results, query, options, now, reranked, earlier, rerankPc>>

validateVars == <<candidate, validation, validatePc>>

cacheVars == <<envSet, _vectorStore, _queryEngine, engineCalls, built, cleared>>

pipelineVars == <<pipeIn, lecture, pipePc, pipeI, caught, pipeLog>>

vars == <<tsIn, tsSecs, tsBack, tsPc, segments, config, chunks, chunkSrc, chunkPc,
          content, parsed, parsedSrc, parsePc,
          introSegs, lectureStart, introKept, introAnalysis, introPc,
          results, query, options, now, reranked, earlier, rerankPc,
          candidate, validation, validatePc,
          envSet, _vectorStore, _queryEngine, engineCalls, built, cleared,
          pipeIn, lecture, pipePc, pipeI, caught, pipeLog>>

(***************************************************************************)
(* Characters and strings                                                  *)
(***************************************************************************)
Digits == <<"0", "1", "2", "3", "4", "5", "6", "7", "8", "9">>

IsDigit(dc) == \E dgt \in 1..10 : Digits[dgt] = dc

DigitVal(dvc) == (CHOOSE dgv \in 1..10 : Digits[dgv] = dvc) - 1

IsSpace(spc) == spc \in {" ", "\t", "\r", "\n"}

\* the elements of a set of naturals in increasing order
SortedSeq(srtS) ==
    [srtK \in 1..Cardinality(srtS) |->
        CHOOSE srtX \in srtS : Cardinality({srtY \in srtS : srtY < srtX}) = srtK - 1]

MinOf(minS) == CHOOSE minX \in minS : \A minY \in minS : minX <= minY

MaxOf(maxS) == CHOOSE maxX \in maxS : \A maxY \in maxS : maxX >= maxY

TrimStart(tsStr) ==
    LET tsKeep == {tsI \in 1..Len(tsStr) : ~IsSpace(tsStr[tsI])}
    IN  IF tsKeep = {} THEN <<>> ELSE SubSeq(tsStr, MinOf(tsKeep), Len(tsStr))

TrimEnd(teStr) ==
    LET teKeep == {teI \in 1..Len(teStr) : ~IsSpace(teStr[teI])}
    IN  IF teKeep = {} THEN <<>> ELSE SubSeq(teStr, 1, MaxOf(teKeep))

Trim(trStr) == TrimEnd(TrimStart(trStr))

\* String.prototype.substring(0, n)
Substring0(sbStr, sbN) ==
    IF sbN <= 0 THEN <<>> ELSE IF sbN >= Len(sbStr) THEN sbStr ELSE SubSeq(sbStr, 1, sbN)

\* String.prototype.split(sep) for a one-character separator: "" gives [""].
SplitChar(scStr, scSep) ==
    LET scAt == SortedSeq({scI \in 1..Len(scStr) : scStr[scI] = scSep})
        scLo(scK) == IF scK = 1 THEN 1 ELSE scAt[scK - 1] + 1
        scHi(scK) == IF scK = Len(scAt) + 1 THEN Len(scStr) ELSE scAt[scK] - 1
    IN  SubSeq([scP \in 1..(Len(scAt) + 1) |-> SubSeq(scStr, scLo(scP), scHi(scP))],
               1, Len(scAt) + 1)

\* String.prototype.split(/\s+/): a run of whitespace is one separator; leading
\* or trailing whitespace gives an empty first or last element.
SplitWS(swStr) ==
    LET swStarts == SortedSeq({swI \in 1..Len(swStr) :
                        ~IsSpace(swStr[swI]) /\ (swI = 1 \/ IsSpace(swStr[swI - 1]))})
        swEnds   == SortedSeq({swJ \in 1..Len(swStr) :
                        ~IsSpace(swStr[swJ]) /\ (swJ = Len(swStr) \/ IsSpace(swStr[swJ + 1]))})
        swWords  == SubSeq([swK \in 1..Len(swStarts) |->
                               SubSeq(swStr, swStarts[swK], swEnds[swK])],
                           1, Len(swStarts))
    IN  IF swStr = <<>> THEN << <<>> >>
        ELSE (IF IsSpace(swStr[1]) THEN << <<>> >> ELSE <<>>) \o swWords \o
             (IF IsSpace(swStr[Len(swStr)]) THEN << <<>> >> ELSE <<>>)

\* Array.prototype.join(sep)
RECURSIVE Join(_, _)
Join(jnParts, jnSep) ==
    IF jnParts = <<>> THEN <<>>
    ELSE IF Len(jnParts) = 1 THEN jnParts[1]
    ELSE LET jnH == Len(jnParts) \div 2
         IN  Join(SubSeq(jnParts, 1, jnH), jnSep) \o jnSep \o
             Join(SubSeq(jnParts, jnH + 1, Len(jnParts)), jnSep)

\* String.prototype.includes(needle)
Includes(incStr, incNeedle) ==
    \E incI \in 0..(Len(incStr) - Len(incNeedle)) :
        SubSeq(incStr, incI + 1, incI + Len(incNeedle)) = incNeedle

\* Number.prototype.toString() of a natural number
RECURSIVE NatToString(_)
NatToString(ntsN) ==
    IF ntsN < 10 THEN <<Digits[ntsN + 1]>>
    ELSE NatToString(ntsN \div 10) \o <<Digits[(ntsN % 10) + 1]>>

\* String.prototype.padStart(w, '0')
RECURSIVE PadStart(_, _)
PadStart(psStr, psW) ==
    IF Len(psStr) >= psW THEN psStr ELSE PadStart(<<"0">> \o psStr, psW)

(***************************************************************************)
(* IEEE-754 double arithmetic on non-negative values.                      *)
(* A finite double is [nan |-> FALSE, int |-> I, frac |-> F] with value    *)
(* I + SUM F[i] * 2^-i, F without trailing zeros.                          *)
(***************************************************************************)
SigBits == 53

NaN == [nan |-> TRUE, int |-> 0, frac |-> <<>>]

Zeros(zN) == SubSeq([zI \in 1..zN |-> 0], 1, zN)

\* number of bits of a natural below 2^30
BitLen(blN) == CHOOSE blK \in 0..30 : blN < 2^blK /\ (blK = 0 \/ blN >= 2^(blK - 1))

LeadingZeros(lzF) ==
    LET lzOnes == {lzI \in 1..Len(lzF) : lzF[lzI] = 1}
    IN  IF lzOnes = {} THEN Len(lzF) ELSE MinOf(lzOnes) - 1

StripZeros(szF) ==
    LET szOnes == {szI \in 1..Len(szF) : szF[szI] = 1}
    IN  IF szOnes = {} THEN <<>> ELSE SubSeq(szF, 1, MaxOf(szOnes))

\* F plus one unit in its last place: [c |-> carry out, bits |-> sum]
IncrBits(ibF) ==
    LET ibZeros == {ibI \in 1..Len(ibF) : ibF[ibI] = 0}
    IN  IF ibZeros = {} THEN [c |-> 1, bits |-> Zeros(Len(ibF))]
        ELSE [c |-> 0,
              bits |-> SubSeq(ibF, 1, MaxOf(ibZeros) - 1) \o <<1>> \o
                       Zeros(Len(ibF) - MaxOf(ibZeros))]

\* The double nearest to I + 0.F (+ something below the last bit of F when
\* sticky): round to 53 significant bits, ties to even.
RoundSig(rsI, rsF, rsSticky) ==
    LET rsKeep == IF rsI > 0 THEN SigBits - BitLen(rsI) ELSE LeadingZeros(rsF) + SigBits
    IN  IF Len(rsF) <= rsKeep
        THEN [nan |-> FALSE, int |-> rsI, frac |-> StripZeros(rsF)]
        ELSE LET rsK       == SubSeq(rsF, 1, rsKeep)
                 rsRound   == rsF[rsKeep + 1]
                 rsRest    == rsSticky \/ \E rsJ \in (rsKeep + 2)..Len(rsF) : rsF[rsJ] = 1
                 rsLastOdd == IF rsKeep = 0 THEN rsI % 2 = 1 ELSE rsK[rsKeep] = 1
                 rsUp      == rsRound = 1 /\ (rsRest \/ rsLastOdd)
                 rsInc     == IncrBits(rsK)
             IN  IF rsUp
                 THEN [nan |-> FALSE, int |-> rsI + rsInc.c, frac |-> StripZeros(rsInc.bits)]
                 ELSE [nan |-> FALSE, int |-> rsI, frac |-> StripZeros(rsK)]

PadBits(pbF, pbN) == pbF \o Zeros(pbN - Len(pbF))

\* Carries are propagated over limbs of 13 bits, so that every intermediate
\* product stays below 2^31.
LimbBits == 13

Base == 2^LimbBits

\* the fraction bits F as limbs, most significant first
ToLimbs(tlF) ==
    LET tlN == (Len(tlF) + LimbBits - 1) \div LimbBits
        tlP == PadBits(tlF, tlN * LimbBits)
    IN  SubSeq([tlJ \in 1..tlN |->
                  LET tlO == LimbBits * (tlJ - 1)
                  IN  tlP[tlO + 1] * 4096 + tlP[tlO + 2] * 2048 + tlP[tlO + 3] * 1024 +
                      tlP[tlO + 4] * 512 + tlP[tlO + 5] * 256 + tlP[tlO + 6] * 128 +
                      tlP[tlO + 7] * 64 + tlP[tlO + 8] * 32 + tlP[tlO + 9] * 16 +
                      tlP[tlO + 10] * 8 + tlP[tlO + 11] * 4 + tlP[tlO + 12] * 2 +
                      tlP[tlO + 13]],
               1, tlN)

FromLimbs(flL) ==
    SubSeq([flI \in 1..(LimbBits * Len(flL)) |->
              (flL[((flI - 1) \div LimbBits) + 1]
                  \div 2^(LimbBits - 1 - ((flI - 1) % LimbBits))) % 2],
           1, LimbBits * Len(flL))

\* Long division of (rem + 0.L) by b < 2^17, one quotient limb per limb of L:
\* [limbs |-> quotient, rem |-> remainder]
RECURSIVE DivLimbs(_, _, _)
DivLimbs(dlRem, dlL, dlB) ==
    IF dlL = <<>> THEN [limbs |-> <<>>, rem |-> dlRem]
    ELSE LET dlT    == dlRem * Base + Head(dlL)
             dlRest == DivLimbs(dlT % dlB, Tail(dlL), dlB)
         IN  [limbs |-> <<dlT \div dlB>> \o dlRest.limbs, rem |-> dlRest.rem]

\* x / b for a double x and a positive integer b: the quotient has fewer than
\* BitLen(b) leading zero bits more than x has, so the width holds 53
\* significant bits and a round bit
DDivInt(ddX, ddB) ==
    IF ddX.nan THEN NaN
    ELSE LET ddWidth == SigBits + 1 + BitLen(ddB)
                        + (IF ddX.int = 0 THEN LeadingZeros(ddX.frac) ELSE 0)
             ddQ     == DivLimbs(ddX.int % ddB,
                                 ToLimbs(PadBits(Substring0(ddX.frac, ddWidth), ddWidth)),
                                 ddB)
         IN  RoundSig(ddX.int \div ddB, FromLimbs(ddQ.limbs),
                      ddQ.rem # 0 \/ \E ddJ \in (ddWidth + 1)..Len(ddX.frac) : ddX.frac[ddJ] = 1)

DInt(diN) == [nan |-> FALSE, int |-> diN, frac |-> <<>>]

\* a / b for naturals a, b
DDiv(dvA, dvB) == DDivInt(DInt(dvA), dvB)

\* exact value of 0.L * k for k < 2^17: [c |-> integer part, limbs |-> fraction]
RECURSIVE MulLimbs(_, _)
MulLimbs(mfL, mfK) ==
    IF mfL = <<>> THEN [c |-> 0, limbs |-> <<>>]
    ELSE LET mfR == MulLimbs(Tail(mfL), mfK)
             mfT == Head(mfL) * mfK + mfR.c
         IN  [c |-> mfT \div Base, limbs |-> <<mfT % Base>> \o mfR.limbs]

\* x * k for a double x and a natural k
DMulInt(dmX, dmK) ==
    IF dmX.nan THEN NaN
    ELSE LET dmM == MulLimbs(ToLimbs(dmX.frac), dmK)
         IN  RoundSig(dmX.int * dmK + dmM.c, FromLimbs(dmM.limbs), FALSE)

\* n + x for a natural n and a double x
DAddInt(daN, daX) ==
    IF daX.nan THEN NaN ELSE RoundSig(daN + daX.int, daX.frac, FALSE)

\* exact value of 0.A + 0.B, Len(A) = Len(B)
RECURSIVE AddLimbs(_, _)
AddLimbs(afA, afB) ==
    IF afA = <<>> THEN [c |-> 0, limbs |-> <<>>]
    ELSE LET afR == AddLimbs(Tail(afA), Tail(afB))
             afT == Head(afA) + Head(afB) + afR.c
         IN  [c |-> afT \div Base, limbs |-> <<afT % Base>> \o afR.limbs]

\* exact sum of two unrounded values [int, limbs]
AddExact(aeX, aeY) ==
    LET aeN == IF Len(aeX.limbs) > Len(aeY.limbs) THEN Len(aeX.limbs) ELSE Len(aeY.limbs)
        aeS == AddLimbs(PadBits(aeX.limbs, aeN), PadBits(aeY.limbs, aeN))
    IN  [int |-> aeX.int + aeY.int + aeS.c, limbs |-> aeS.limbs]

\* exact x * Base^-h for an unrounded value with int < 2^30
ShiftRight(shX, shH) ==
    [int   |-> IF shH >= 3 THEN 0 ELSE shX.int \div Base^shH,
     limbs |-> SubSeq([shI \in 1..shH |->
                          IF shH - shI >= 3 THEN 0
                          ELSE (shX.int \div Base^(shH - shI)) % Base], 1, shH)
               \o shX.limbs]

\* exact product of the unrounded value x and 0.G, G a sequence of limbs
RECURSIVE MulByLimbs(_, _, _)
MulByLimbs(mbX, mbG, mbAt) ==
    IF mbAt > Len(mbG) THEN [int |-> 0, limbs |-> <<>>]
    ELSE LET mbP == MulLimbs(mbX.limbs, mbG[mbAt])
         IN  AddExact(ShiftRight([int |-> mbX.int * mbG[mbAt] + mbP.c, limbs |-> mbP.limbs],
                                 mbAt),
                      MulByLimbs(mbX, mbG, mbAt + 1))

\* x * y for doubles x, y
DMul(mlX, mlY) ==
    IF mlX.nan \/ mlY.nan THEN NaN
    ELSE LET mlU == [int |-> mlX.int, limbs |-> ToLimbs(mlX.frac)]
             mlA == MulLimbs(mlU.limbs, mlY.int)
             mlP == AddExact([int |-> mlX.int * mlY.int + mlA.c, limbs |-> mlA.limbs],
                             MulByLimbs(mlU, ToLimbs(mlY.frac), 1))
         IN  RoundSig(mlP.int, FromLimbs(mlP.limbs), FALSE)

\* Math.floor(x), and x % m for a positive integer m (fmod is exact)
DFloor(flX) == flX.int

DMod(mdX, mdM) ==
    IF mdX.nan THEN NaN ELSE [nan |-> FALSE, int |-> mdX.int % mdM, frac |-> mdX.frac]

(***************************************************************************)
(* Token estimator (token-counter)                                         *)
(***************************************************************************)
\* the double literals 1.3 and 0.9
D13 == DDiv(13, 10)

D09 == DDiv(9, 10)

\* Math.ceil(x)
DCeil(clX) == IF clX.frac = <<>> THEN clX.int ELSE clX.int + 1

estimateTokenCount(etText) ==
    IF etText = <<>> THEN 0
    ELSE LET etWords   == SplitWS(etText)
             wordCount == Cardinality({etI \in 1..Len(etWords) : Len(etWords[etI]) > 0})
         IN  DCeil(DMulInt(D13, wordCount))

truncateToTokenLimit(ttText, ttMaxTokens) ==
    LET estimatedTokens == estimateTokenCount(ttText)
    IN  IF estimatedTokens <= ttMaxTokens THEN ttText
        ELSE LET charPerToken == DDiv(Len(ttText), estimatedTokens)
                 maxChars     == DFloor(DMul(DMulInt(charPerToken, ttMaxTokens), D09))
             IN  Trim(Substring0(ttText, maxChars))

(***************************************************************************)
(* Semantic chunker (chunker)                                              *)
(***************************************************************************)
\* a JavaScript value passed as respectBoundaries: an array, or a value of
\* another type
ArrayValue(avItems) == [type |-> "array", items |-> avItems]

NotAnArray == [type |-> "string", items |-> <<>>]

DEFAULT_CHUNKING_CONFIG ==
    [minTokens |-> 300, maxTokens |-> 800, overlap |-> 50,
     respectBoundaries |->
         ArrayValue(<< <<"\n", "\n">>, <<".", " ">>, <<"?", " ">>, <<"!", " ">> >>)]

\* createChunk with hasOverlap never set
createChunkUnflagged(ccText, ccStartTime, ccEndTime, ccChunkIndex, ccConfig) ==
    LET tokenCount == estimateTokenCount(ccText)
        finalText  == IF tokenCount > ccConfig.maxTokens
                      THEN truncateToTokenLimit(ccText, ccConfig.maxTokens)
                      ELSE ccText
    IN  [text       |-> Trim(finalText),
         startTime  |-> ccStartTime,
         endTime    |-> ccEndTime,
         tokenCount |-> estimateTokenCount(finalText),
         metadata   |-> [chunkIndex |-> ccChunkIndex, hasOverlap |-> FALSE]]

\* createChunk that leaves a chunk below minTokens without text
createChunkEnforcingMin(ccText, ccStartTime, ccEndTime, ccChunkIndex, ccConfig) ==
    [text       |-> IF estimateTokenCount(ccText) < ccConfig.minTokens THEN <<>> ELSE Trim(ccText),
     startTime  |-> ccStartTime,
     endTime    |-> ccEndTime,
     tokenCount |-> estimateTokenCount(ccText),
     metadata   |-> [chunkIndex |-> ccChunkIndex, hasOverlap |-> ccChunkIndex > 0]]

createChunk(ccText, ccStartTime, ccEndTime, ccChunkIndex, ccConfig) ==
    LET tokenCount == estimateTokenCount(ccText)
        finalText  == IF tokenCount > ccConfig.maxTokens
                      THEN truncateToTokenLimit(ccText, ccConfig.maxTokens)
                      ELSE ccText
    IN  [text       |-> Trim(finalText),
         startTime  |-> ccStartTime,
         endTime    |-> ccEndTime,
         tokenCount |-> estimateTokenCount(finalText),
         metadata   |-> [chunkIndex |-> ccChunkIndex, hasOverlap |-> ccChunkIndex > 0]]

\* the backward loop of getOverlapText over words[1..i]
RECURSIVE OverlapLoop(_, _, _, _, _)
OverlapLoop(olWords, olI, olTokens, olAcc, olBudget) ==
    IF olI < 1 \/ olTokens >= olBudget THEN olAcc
    ELSE LET wordTokens == estimateTokenCount(olWords[olI])
         IN  IF olTokens + wordTokens <= olBudget
             THEN OverlapLoop(olWords, olI - 1, olTokens + wordTokens,
                              <<olWords[olI]>> \o olAcc, olBudget)
             ELSE olAcc

getOverlapText(goText, overlapTokens) ==
    IF overlapTokens <= 0 THEN <<>>
    ELSE LET goWords == SplitWS(goText)
         IN  Join(OverlapLoop(goWords, Len(goWords), 0, <<>>, overlapTokens), <<" ">>)

\* a + (a ? ' ' : '') + b
Glue(apA, apB) == apA \o (IF apA # <<>> THEN <<" ">> ELSE <<>>) \o apB

\* the loop of splitLongSegment and the flush after it; sl.at is the next word
RECURSIVE SplitLoop(_, _, _, _)
SplitLoop(slSeg, slConfig, slWords, sl) ==
    IF sl.at > Len(slWords)
    THEN IF Trim(sl.currentChunk) # <<>>
         THEN Append(sl.chunks,
                     createChunk(sl.currentChunk, slSeg.startTime, slSeg.endTime,
                                 sl.chunkIndex, slConfig))
         ELSE sl.chunks
    ELSE LET testChunk == Glue(sl.currentChunk, slWords[sl.at])
         IN  IF estimateTokenCount(testChunk) > slConfig.maxTokens /\ sl.currentChunk # <<>>
             THEN SplitLoop(slSeg, slConfig, slWords,
                    [at           |-> sl.at + 1,
                     chunks       |-> Append(sl.chunks,
                                        createChunk(sl.currentChunk, slSeg.startTime,
                                                    slSeg.endTime, sl.chunkIndex, slConfig)),
                     currentChunk |-> Glue(getOverlapText(sl.currentChunk, slConfig.overlap),
                                           slWords[sl.at]),
                     chunkIndex   |-> sl.chunkIndex + 1])
             ELSE SplitLoop(slSeg, slConfig, slWords,
                    [sl EXCEPT !.at = sl.at + 1, !.currentChunk = testChunk])

splitLongSegment(ssSeg, ssConfig, startChunkIndex) ==
    SplitLoop(ssSeg, ssConfig, SplitWS(ssSeg.text),
              [at |-> 1, chunks |-> <<>>, currentChunk |-> <<>>,
               chunkIndex |-> startChunkIndex])

\* chunkVTT, the branch of an over-long segment met with an empty buffer:
\* the state of the loop after splitChunks were pushed
PushSplit(cv, splitChunks) ==
    [cv EXCEPT !.at = cv.at + 1,
               !.chunks = cv.chunks \o splitChunks,
               !.src = cv.src \o [k \in 1..Len(splitChunks) |-> [from |-> cv.at, to |-> cv.at]],
               !.chunkIndex = cv.chunkIndex + Len(splitChunks),
               !.currentChunk = <<>>,
               !.from = 0,
               !.to = 0]

\* the loop of chunkVTT and the flush after it; cv.at is the next segment.
\* from and to are history: the first and last segment whose text was
\* appended to the buffer (0: none).
RECURSIVE ChunkLoop(_, _, _)
ChunkLoop(clSegs, clConfig, cv) ==
    IF cv.at > Len(clSegs)
    THEN IF Trim(cv.currentChunk) # <<>>
         THEN [chunks |-> Append(cv.chunks,
                            createChunk(cv.currentChunk, cv.currentStartTime,
                                        cv.currentEndTime, cv.chunkIndex, clConfig)),
               src    |-> Append(cv.src, [from |-> cv.from, to |-> cv.to])]
         ELSE [chunks |-> cv.chunks, src |-> cv.src]
    ELSE LET segment     == clSegs[cv.at]
             segmentText == Trim(segment.text)
             testChunk   == Glue(cv.currentChunk, segmentText)
             tooLong     == estimateTokenCount(testChunk) > clConfig.maxTokens
         IN  IF segmentText = <<>>
             THEN ChunkLoop(clSegs, clConfig, [cv EXCEPT !.at = cv.at + 1])
             ELSE IF tooLong /\ cv.currentChunk # <<>>
             THEN ChunkLoop(clSegs, clConfig,
                    [at               |-> cv.at + 1,
                     chunks           |-> Append(cv.chunks,
                                            createChunk(cv.currentChunk, cv.currentStartTime,
                                                        cv.currentEndTime, cv.chunkIndex,
                                                        clConfig)),
                     src              |-> Append(cv.src, [from |-> cv.from, to |-> cv.to]),
                     currentChunk     |-> Glue(getOverlapText(cv.currentChunk,
                                                              clConfig.overlap),
                                               segmentText),
                     currentStartTime |-> segment.startTime,
                     currentEndTime   |-> segment.endTime,
                     chunkIndex       |-> cv.chunkIndex + 1,
                     from             |-> cv.at,
                     to               |-> cv.at])
             ELSE IF tooLong
             THEN ChunkLoop(clSegs, clConfig,
                    PushSplit(cv, splitLongSegment(segment, clConfig, cv.chunkIndex)))
             ELSE ChunkLoop(clSegs, clConfig,
                    [cv EXCEPT !.at = cv.at + 1,
                               !.currentChunk = testChunk,
                               !.currentEndTime = segment.endTime,
                               !.from = IF cv.from = 0 THEN cv.at ELSE cv.from,
                               !.to = cv.at])

\* chunkVTT: [chunks |-> the returned array, src |-> its history]
chunkVTT(cvSegs, cvConfig) ==
    IF Len(cvSegs) = 0 THEN [chunks |-> <<>>, src |-> <<>>]
    ELSE ChunkLoop(cvSegs, cvConfig,
           [at |-> 1, chunks |-> <<>>, src |-> <<>>, currentChunk |-> <<>>,
            currentStartTime |-> cvSegs[1].startTime,
            currentEndTime |-> cvSegs[1].endTime,
            chunkIndex |-> 0, from |-> 0, to |-> 0])

\* validateChunkingConfig that reports the first violation only
validateChunkingConfigFirstOnly(vcConfig) ==
    LET errors ==
            IF vcConfig.minTokens <= 0 THEN <<"minTokens must be greater than 0">>
            ELSE IF vcConfig.maxTokens <= vcConfig.minTokens
            THEN <<"maxTokens must be greater than minTokens">>
            ELSE IF vcConfig.overlap < 0 THEN <<"overlap must be non-negative">>
            ELSE IF vcConfig.overlap >= vcConfig.minTokens
            THEN <<"overlap must be less than minTokens">>
            ELSE IF vcConfig.respectBoundaries.type # "array"
            THEN <<"respectBoundaries must be an array">>
            ELSE <<>>
    IN  [isValid |-> Len(errors) = 0, errors |-> errors]

validateChunkingConfig(vcConfig) ==
    LET errors ==
            (IF vcConfig.minTokens <= 0
             THEN <<"minTokens must be greater than 0">> ELSE <<>>)
            \o (IF vcConfig.maxTokens <= vcConfig.minTokens
                THEN <<"maxTokens must be greater than minTokens">> ELSE <<>>)
            \o (IF vcConfig.overlap < 0
                THEN <<"overlap must be non-negative">> ELSE <<>>)
            \o (IF vcConfig.overlap >= vcConfig.minTokens
                THEN <<"overlap must be less than minTokens">> ELSE <<>>)
            \o (IF vcConfig.respectBoundaries.type # "array"
                THEN <<"respectBoundaries must be an array">> ELSE <<>>)
    IN  [isValid |-> Len(errors) = 0, errors |-> errors]

\* validateChunkingConfig(config).isValid
ValidConfig(vcConfig) == validateChunkingConfig(vcConfig).isValid

(***************************************************************************)
(* Timestamp codec (timestamp-utils)                                       *)
(***************************************************************************)
\* parseInt(s) for unsigned input: leading whitespace is skipped, the longest
\* prefix of digits is read, NaN when there is none.
RECURSIVE DigitsValue(_, _)
DigitsValue(s, acc) ==
    IF s = <<>> THEN acc
    ELSE IF ~IsDigit(Head(s)) THEN acc
    ELSE DigitsValue(Tail(s), acc * 10 + DigitVal(Head(s)))

\* parseInt on the unsigned decimal strings the codec meets
parseInt(str) ==
    LET s == TrimStart(str)
    IN  IF s = <<>> \/ ~IsDigit(Head(s)) THEN [nan |-> TRUE, val |-> 0]
        ELSE [nan |-> FALSE, val |-> DigitsValue(s, 0)]

Threw == [threw |-> TRUE, val |-> NaN]

Returned(v) == [threw |-> FALSE, val |-> v]

timestampToSeconds(timestamp) ==
    LET parts == SplitChar(timestamp, ":")
    IN  IF Len(parts) # 3 THEN Threw
        ELSE LET secondsWithMs == SplitChar(parts[3], ".")
                 seconds      == secondsWithMs[1]
                 \* milliseconds || '0': undefined and '' both give '0'
                 milliseconds == IF Len(secondsWithMs) >= 2 /\ secondsWithMs[2] # <<>>
                                 THEN secondsWithMs[2] ELSE <<"0">>
                 h  == parseInt(parts[1])
                 m  == parseInt(parts[2])
                 sc == parseInt(seconds)
                 ms == parseInt(milliseconds)
             IN  IF h.nan \/ m.nan \/ sc.nan \/ ms.nan THEN Returned(NaN)
                 ELSE Returned(DAddInt(h.val * 3600 + m.val * 60 + sc.val,
                                       DDiv(ms.val, 1000)))

NaNString == <<"N", "a", "N">>

secondsToTimestamp(seconds) ==
    IF seconds.nan
    THEN NaNString \o <<":">> \o NaNString \o <<":">> \o NaNString \o <<".">> \o NaNString
    ELSE LET hours   == DFloor(DDivInt(seconds, 3600))
             minutes == DFloor(DDivInt(DMod(seconds, 3600), 60))
             secs    == DFloor(DMod(seconds, 60))
             ms      == DFloor(DMulInt(DMod(seconds, 1), 1000))
         IN  PadStart(NatToString(hours), 2) \o <<":">> \o
             PadStart(NatToString(minutes), 2) \o <<":">> \o
             PadStart(NatToString(secs), 2) \o <<".">> \o
             PadStart(NatToString(ms), 3)

AllDigits(s) == s # <<>> /\ \A i \in 1..Len(s) : IsDigit(s[i])

\* /^\d{2}:\d{2}:\d{2}\.\d{3}$/
isValidTimestamp(t) ==
    /\ Len(t) = 12
    /\ \A i \in {1, 2, 4, 5, 7, 8, 10, 11, 12} : IsDigit(t[i])
    /\ t[3] = ":" /\ t[6] = ":" /\ t[9] = "."

\* /^(\d{2}:\d{2}:\d{2}\.\d{3})\s*-->\s*(\d{2}:\d{2}:\d{2}\.\d{3})/
parseTimestampLine(plLine) ==
    LET plArrow == <<"-", "-", ">">>
        \* first position at or after plFrom that holds no whitespace
        plSkip(plFrom) ==
            MinOf({plI \in plFrom..(Len(plLine) + 1) :
                      plI = Len(plLine) + 1 \/ ~IsSpace(plLine[plI])})
        plA == plSkip(13)
        plB == plSkip(plA + 3)
    IN  IF /\ Len(plLine) >= 12
           /\ isValidTimestamp(SubSeq(plLine, 1, 12))
           /\ plA + 2 <= Len(plLine)
           /\ SubSeq(plLine, plA, plA + 2) = plArrow
           /\ plB + 11 <= Len(plLine)
           /\ isValidTimestamp(SubSeq(plLine, plB, plB + 11))
        THEN [match |-> TRUE, startTime |-> SubSeq(plLine, 1, 12),
              endTime |-> SubSeq(plLine, plB, plB + 11)]
        ELSE [match |-> FALSE, startTime |-> <<>>, endTime |-> <<>>]

(***************************************************************************)
(* VTT parser (parser)                                                     *)
(***************************************************************************)
\* isSequenceNumber without the anchors: /\d+/.test(line.trim())
isSequenceNumberUnanchored(snLine) ==
    \E snI \in 1..Len(Trim(snLine)) : IsDigit(Trim(snLine)[snI])

\* /^\d+$/.test(line.trim())
isSequenceNumber(snLine) == AllDigits(Trim(snLine))

WEBVTT == <<"W", "E", "B", "V", "T", "T">>

\* an inner loop that only a blank line stops
RECURSIVE CollectTextToBlank(_, _, _)
CollectTextToBlank(ctLines, ctI, ctAcc) ==
    IF ctI > Len(ctLines) THEN [i |-> ctI - 1, at |-> ctAcc]
    ELSE IF Trim(ctLines[ctI]) = <<>> THEN [i |-> ctI - 1, at |-> ctAcc]
    ELSE CollectTextToBlank(ctLines, ctI + 1, Append(ctAcc, ctI))

\* the inner while loop of parseVTT from line ctI (1-based): the lines
\* collected and the value of i (0-based) when the loop ends
RECURSIVE CollectText(_, _, _)
CollectText(ctLines, ctI, ctAcc) ==
    IF ctI > Len(ctLines) THEN [i |-> ctI - 1, at |-> ctAcc]
    ELSE LET nextLine == Trim(ctLines[ctI])
         IN  IF parseTimestampLine(nextLine).match THEN [i |-> ctI - 2, at |-> ctAcc]
             ELSE IF isSequenceNumber(nextLine) THEN [i |-> ctI - 2, at |-> ctAcc]
             ELSE IF nextLine = <<>> THEN [i |-> ctI - 1, at |-> ctAcc]
             ELSE CollectText(ctLines, ctI + 1, Append(ctAcc, ctI))

\* a cue whose index is spent although no segment is pushed for it
DiscardCueCounting(dcPv, dcNext) ==
    [dcPv EXCEPT !.i = dcNext, !.segmentIndex = dcPv.segmentIndex + 1]

\* a cue without text content: nothing is pushed and segmentIndex++ is not
\* evaluated; the loop goes on after the lines the cue consumed
DiscardCue(dcPv, dcNext) == [dcPv EXCEPT !.i = dcNext]

\* the for loop of parseVTT; pv.i is the 0-based loop variable
RECURSIVE ParseLoop(_, _)
ParseLoop(pvLines, pv) ==
    IF ~(pv.i < Len(pvLines)) THEN pv
    ELSE LET line          == Trim(pvLines[pv.i + 1])
             timestampData == parseTimestampLine(line)
             skip          == [pv EXCEPT !.i = pv.i + 1]
         IN  IF line = <<>> THEN ParseLoop(pvLines, skip)
             ELSE IF isSequenceNumber(line) THEN ParseLoop(pvLines, skip)
             ELSE IF line = WEBVTT THEN ParseLoop(pvLines, skip)
             ELSE IF ~timestampData.match THEN ParseLoop(pvLines, skip)
             ELSE IF ~isValidTimestamp(timestampData.startTime)
                     \/ ~isValidTimestamp(timestampData.endTime)
             THEN ParseLoop(pvLines, skip)
             ELSE LET collected == CollectText(pvLines, pv.i + 2, <<>>)
                      textLines == [tlK \in 1..Len(collected.at) |->
                                       Trim(pvLines[collected.at[tlK]])]
                      text      == Trim(Join(textLines, <<" ">>))
                  IN  IF Len(textLines) > 0 /\ Len(text) > 0
                      THEN ParseLoop(pvLines,
                             [i            |-> collected.i + 1,
                              segments     |-> Append(pv.segments,
                                                 [index     |-> pv.segmentIndex,
                                                  startTime |-> timestampData.startTime,
                                                  endTime   |-> timestampData.endTime,
                                                  text      |-> text]),
                              src          |-> Append(pv.src,
                                                 [cue |-> pv.i + 1, lines |-> collected.at]),
                              segmentIndex |-> pv.segmentIndex + 1])
                      ELSE ParseLoop(pvLines, DiscardCue(pv, collected.i + 1))

\* a JavaScript value passed as content: a string, or a value of another type
StringValue(svStr) == [type |-> "string", str |-> svStr]

NonStrings ==
    { [type |-> "null", str |-> <<>>], [type |-> "undefined", str |-> <<>>],
      [type |-> "number", str |-> <<>>], [type |-> "object", str |-> <<>>] }

\* parseVTT that also throws when it found no segment
parseVTTStrict(pvContent) ==
    IF pvContent.type # "string" \/ pvContent.str = <<>>
    THEN [threw |-> TRUE, segments |-> <<>>, src |-> <<>>]
    ELSE LET pvEnd == ParseLoop(SplitChar(pvContent.str, "\n"),
                         [i |-> 0, segments |-> <<>>, src |-> <<>>, segmentIndex |-> 0])
         IN  [threw |-> pvEnd.segments = <<>>, segments |-> pvEnd.segments, src |-> pvEnd.src]

\* parseVTT: [threw, segments, src]; src is the history of the segments
parseVTT(pvContent) ==
    IF pvContent.type # "string" \/ pvContent.str = <<>>
    THEN [threw |-> TRUE, segments |-> <<>>, src |-> <<>>]
    ELSE LET pvEnd == ParseLoop(SplitChar(pvContent.str, "\n"),
                         [i |-> 0, segments |-> <<>>, src |-> <<>>, segmentIndex |-> 0])
         IN  [threw |-> FALSE, segments |-> pvEnd.segments, src |-> pvEnd.src]

NoContent == StringValue(<<>>)

NoParse == [threw |-> FALSE, segments |-> <<>>]

\* the HH:MM:SS.mmm string of (h, m, s, ms)
Clock(h, m, s, ms) ==
    PadStart(NatToString(h), 2) \o <<":">> \o PadStart(NatToString(m), 2) \o <<":">> \o
    PadStart(NatToString(s), 2) \o <<".">> \o PadStart(NatToString(ms), 3)

\* the double written as the decimal literal of (h, m, s, ms) in seconds
Offset(h, m, s, ms) == DDiv((h * 3600 + m * 60 + s) * 1000 + ms, 1000)

ClockFields ==
    {[h |-> h, m |-> m, s |-> s, ms |-> ms] :
        h \in {0, 99}, m \in {0, 59}, s \in {0, 1}, ms \in 0..999}

MalformedTimestamps ==
    { <<"0", "0", ":", "0", "0", ":", "1", "0">>,                        \* no millisecond group
      <<"a", "a", ":", "b", "b", ":", "c", "c", ".", "d", "d", "d">>,    \* non-numeric groups
      <<"0", "0", ":", "1", "0", ".", "0", "0", "0">>,                   \* two groups
      <<"0", "0", ":", "0", "0", ":", "0", "0", ":", "1", "0", ".", "0", "0", "0">>,
      <<"0", "0", ":", "0", "0", ":", "1", "0", ".">>,                   \* empty millisecond group
      <<"0", "0", ":", "0", "0", ":", "1", "0", ".", "5", "x">>,
      <<>> }

NoValue == [threw |-> FALSE, val |-> DInt(0)]

\* what analyzeIntroContent returns when the start index is 0
NoAnalysis ==
    [hasIntro |-> FALSE, introDuration |-> DInt(0), lectureStartIndex |-> 0,
     confidence |-> "low"]

\* const { flag = true } = options: a toggle left out, and one given
Unset == [has |-> FALSE, val |-> FALSE]

Flag(fgV) == [has |-> TRUE, val |-> fgV]

\* the reranker before any call
RerankIdle ==
    /\ results = <<>> /\ query = <<>>
    /\ options = [boostRecent |-> Unset, boostTechnical |-> Unset, boostTitles |-> Unset]
    /\ now = 0 /\ reranked = <<>> /\ earlier = <<>> /\ rerankPc = "idle"

\* the validator before any call
ValidateIdle ==
    /\ candidate = DEFAULT_CHUNKING_CONFIG
    /\ validation = [isValid |-> TRUE, errors |-> <<>>]
    /\ validatePc = "idle"

\* a call of getQueryEngine that was not made yet
NotCalled == [pc |-> "idle", vectorStore |-> 0, value |-> 0, epoch |-> 0, settled |-> 0]

MaxCalls == 3

\* the module of the query engine before any call, its caches null
CacheIdle ==
    /\ envSet = TRUE
    /\ _vectorStore = 0
    /\ _queryEngine = 0
    /\ engineCalls = [ciC \in 1..MaxCalls |-> NotCalled]
    /\ built = [stores |-> 0, engines |-> 0, last |-> 0]
    /\ cleared = 0

\* the row the upload route inserts before it starts processVTTFile
Uploaded == [status |-> "processing", error_message |-> "", processing_stage |-> ""]

\* the pipeline before any run
PipelineIdle ==
    /\ pipeIn = [content |-> NoContent, chunkCount |-> 0]
    /\ lecture = Uploaded
    /\ pipePc = "idle"
    /\ pipeI = 0
    /\ caught = ""
    /\ pipeLog = <<>>

CodecInit ==
    /\ tsIn \in {[kind |-> "str", str |-> Clock(f.h, f.m, f.s, f.ms), f |-> f] : f \in ClockFields}
          \cup {[kind |-> "num", str |-> <<>>, f |-> f] : f \in ClockFields}
          \cup {[kind |-> "str", str |-> t, f |-> [h |-> 0, m |-> 0, s |-> 0, ms |-> 0]] :
                    t \in MalformedTimestamps}
    /\ tsSecs = NoValue
    /\ tsBack = <<>>
    /\ tsPc = "start"
    /\ segments = <<>> /\ config = DEFAULT_CHUNKING_CONFIG /\ chunks = <<>>
    /\ chunkSrc = <<>> /\ chunkPc = "idle"
    /\ content = NoContent /\ parsed = NoParse /\ parsedSrc = <<>> /\ parsePc = "idle"
    /\ introSegs = <<>> /\ lectureStart = 0 /\ introKept = <<>>
    /\ introAnalysis = NoAnalysis /\ introPc = "idle"
    /\ RerankIdle
    /\ ValidateIdle
    /\ CacheIdle
    /\ PipelineIdle

\* string -> seconds: first step from a string, second step from an offset
ToSeconds ==
    /\ \/ tsPc = "start" /\ tsIn.kind = "str" /\ tsSecs' = timestampToSeconds(tsIn.str)
          /\ tsPc' = "mid"
       \/ tsPc = "mid" /\ tsIn.kind = "num" /\ tsSecs' = timestampToSeconds(tsBack)
          /\ tsPc' = "done"
    /\ UNCHANGED <<tsIn, tsBack>>
    /\ UNCHANGED <<chunkVars, parseVars, introVars, rerankVars, validateVars, cacheVars, pipelineVars>>

\* seconds -> string: first step from an offset, second step from a string
ToTimestamp ==
    /\ \/ tsPc = "start" /\ tsIn.kind = "num"
          /\ tsBack' = secondsToTimestamp(Offset(tsIn.f.h, tsIn.f.m, tsIn.f.s, tsIn.f.ms))
          /\ tsPc' = "mid"
       \/ tsPc = "mid" /\ tsIn.kind = "str" /\ ~tsSecs.threw
          /\ tsBack' = secondsToTimestamp(tsSecs.val)
          /\ tsPc' = "done"
    /\ UNCHANGED <<tsIn, tsSecs>>
    /\ UNCHANGED <<chunkVars, parseVars, introVars, rerankVars, validateVars, cacheVars, pipelineVars>>

CodecNext == ToSeconds \/ ToTimestamp

SpecCodec == CodecInit /\ [][CodecNext]_vars

\* three colon-separated digit groups, the last one followed by a dot and
\* a digit group
WellFormed(wfT) ==
    LET wfParts == SplitChar(wfT, ":")
    IN  /\ Len(wfParts) = 3
        /\ AllDigits(wfParts[1])
        /\ AllDigits(wfParts[2])
        /\ LET wfSec == SplitChar(wfParts[3], ".")
           IN  Len(wfSec) = 2 /\ AllDigits(wfSec[1]) /\ AllDigits(wfSec[2])

\* Math.round(x * 1000): the offset in whole milliseconds
Millis(mlX) ==
    LET mlP == DMulInt(mlX, 1000)
    IN  mlP.int + (IF mlP.frac # <<>> /\ mlP.frac[1] = 1 THEN 1 ELSE 0)

\* C8: the codec round-trips: a well-formed string converted to seconds and
\* back is the same string, and an offset converted to a string and back is
\* the same offset to the millisecond.
CodecRoundTrips ==
    tsPc = "done" =>
        /\ tsIn.kind = "str" => tsBack = tsIn.str
        /\ tsIn.kind = "num" =>
              /\ ~tsSecs.threw /\ ~tsSecs.val.nan
              /\ Millis(tsSecs.val) =
                    Millis(Offset(tsIn.f.h, tsIn.f.m, tsIn.f.s, tsIn.f.ms))

\* C9: timestampToSeconds throws on every string that is not three
\* colon-separated numeric groups with a dot-separated millisecond group, and
\* returns a number only for strings of that form.
MalformedRejected ==
    tsPc = "mid" /\ tsIn.kind = "str" =>
        (tsSecs.threw <=> ~WellFormed(tsIn.str))

(***************************************************************************)
(* Lecture-start detector (intro-detector)                                 *)
(***************************************************************************)
LECTURE_START_KEYWORDS ==
    << <<"t", "o", "d", "a", "y">>,
       <<"w", "e", "'", "l", "l", " ", "c", "o", "v", "e", "r">>,
       <<"l", "e", "t", "'", "s", " ", "s", "t", "a", "r", "t">>,
       <<"a", "g", "e", "n", "d", "a">>,
       <<"w", "e", "l", "c", "o", "m", "e", " ", "t", "o">>,
       <<"i", "n", " ", "t", "h", "i", "s", " ", "l", "e", "c", "t", "u", "r", "e">>,
       <<"w", "e", " ", "w", "i", "l", "l", " ", "l", "e", "a", "r", "n">>,
       <<"o", "u", "r", " ", "t", "o", "p", "i", "c", " ", "t", "o", "d", "a", "y">>,
       <<"l", "e", "t", "'", "s", " ", "b", "e", "g", "i", "n">>,
       <<"f", "i", "r", "s", "t">>,
       <<"i", "n", "t", "r", "o", "d", "u", "c", "t", "i", "o", "n">> >>

UpperCase == <<"A", "B", "C", "D", "E", "F", "G", "H", "I", "J", "K", "L", "M",
               "N", "O", "P", "Q", "R", "S", "T", "U", "V", "W", "X", "Y", "Z">>

LowerCase == <<"a", "b", "c", "d", "e", "f", "g", "h", "i", "j", "k", "l", "m",
               "n", "o", "p", "q", "r", "s", "t", "u", "v", "w", "x", "y", "z">>

\* String.prototype.toLowerCase() on ASCII text
toLowerCase(lcStr) ==
    [lcI \in 1..Len(lcStr) |->
        IF \E lcK \in 1..26 : UpperCase[lcK] = lcStr[lcI]
        THEN LowerCase[CHOOSE lcK \in 1..26 : UpperCase[lcK] = lcStr[lcI]]
        ELSE lcStr[lcI]]

\* containsLectureKeywords with every() in place of some()
containsEveryKeyword(ckText) ==
    \A ckK \in 1..Len(LECTURE_START_KEYWORDS) : Includes(ckText, LECTURE_START_KEYWORDS[ckK])

containsLectureKeywords(ckText) ==
    \E ckK \in 1..Len(LECTURE_START_KEYWORDS) : Includes(ckText, LECTURE_START_KEYWORDS[ckK])

\* x > n for a double x and an integer n >= 0
DGreaterInt(dgX, dgN) ==
    ~dgX.nan /\ (dgX.int > dgN \/ (dgX.int = dgN /\ dgX.frac # <<>>))

KeywordWindow == 20

tenMinutes == 10 * 60

SubstantialLength == 20

FallbackLength == 50

\* findLectureStart: the index the first matching loop returns, else 0.  The
\* start times are clock strings, on which timestampToSeconds returns.
findLectureStart(flSegs) ==
    LET flWindow  == IF Len(flSegs) < KeywordWindow THEN Len(flSegs) ELSE KeywordWindow
        flKeyword == {flI \in 0..(flWindow - 1) :
                        LET text == toLowerCase(flSegs[flI + 1].text)
                        IN  Len(text) > SubstantialLength /\ containsLectureKeywords(text)}
        flLate    == {flI \in 0..(Len(flSegs) - 1) :
                        LET timeInSeconds == timestampToSeconds(flSegs[flI + 1].startTime).val
                        IN  /\ DGreaterInt(timeInSeconds, tenMinutes)
                            /\ Len(flSegs[flI + 1].text) > FallbackLength}
    IN  IF Len(flSegs) = 0 THEN 0
        ELSE IF flKeyword # {} THEN MinOf(flKeyword)
        ELSE IF flLate # {} THEN MinOf(flLate)
        ELSE 0

\* x < n for a double x >= 0 and an integer n
DLessInt(dlX, dlN) == ~dlX.nan /\ dlX.int < dlN

\* analyzeIntroContent after its call of findLectureStart
AnalyzeAt(aaSegs, lectureStartIndex) ==
    IF lectureStartIndex = 0
    THEN NoAnalysis
    ELSE LET introDuration == timestampToSeconds(aaSegs[lectureStartIndex + 1].startTime).val
         IN  [hasIntro          |-> TRUE,
              introDuration     |-> introDuration,
              lectureStartIndex |-> lectureStartIndex,
              confidence        |-> IF lectureStartIndex < KeywordWindow THEN "high"
                                    ELSE IF DLessInt(introDuration, 15 * 60) THEN "medium"
                                    ELSE "low"]

analyzeIntroContent(aiSegs) == AnalyzeAt(aiSegs, findLectureStart(aiSegs))

\* filterIntroSegments with the cut one place too far: slice(lectureStartIndex + 1)
filterIntroSegmentsAfter(fiSegs, fiStart) == SubSeq(fiSegs, fiStart + 2, Len(fiSegs))

\* segments.slice(lectureStartIndex)
filterIntroSegments(fiSegs, fiStart) ==
    IF fiStart >= 0 THEN SubSeq(fiSegs, fiStart + 1, Len(fiSegs))
    ELSE IF Len(fiSegs) + fiStart > 0 THEN SubSeq(fiSegs, Len(fiSegs) + fiStart + 1, Len(fiSegs))
    ELSE fiSegs

(***************************************************************************)
(* Hybrid reranker (rag/reranker)                                          *)
(***************************************************************************)
\* x + y for non-negative doubles
RoundExact(reS) == RoundSig(reS.int, FromLimbs(reS.limbs), FALSE)

DAdd(adX, adY) ==
    IF adX.nan \/ adY.nan THEN NaN
    ELSE RoundExact(AddExact([int |-> adX.int, limbs |-> ToLimbs(adX.frac)],
                             [int |-> adY.int, limbs |-> ToLimbs(adY.frac)]))

\* x < y for non-negative doubles; false when either is NaN
DLess(lsX, lsY) ==
    LET lsBit(lsF, lsI) == IF lsI <= Len(lsF) THEN lsF[lsI] ELSE 0
    IN  /\ ~lsX.nan /\ ~lsY.nan
        /\ \/ lsX.int < lsY.int
           \/ /\ lsX.int = lsY.int
              /\ \E lsK \in 1..Len(lsY.frac) :
                    /\ lsY.frac[lsK] = 1 /\ lsBit(lsX.frac, lsK) = 0
                    /\ \A lsJ \in 1..(lsK - 1) : lsBit(lsX.frac, lsJ) = lsY.frac[lsJ]

\* Math.min(x, y)
DMin(mnX, mnY) ==
    IF mnX.nan \/ mnY.nan THEN NaN ELSE IF DLess(mnY, mnX) THEN mnY ELSE mnX

\* 1 - x for a double 0 <= x <= 1
DOneMinus(omX) ==
    IF omX.nan THEN NaN
    ELSE IF omX.int >= 1 THEN DInt(0)
    ELSE IF omX.frac = <<>> THEN DInt(1)
    ELSE RoundSig(0, [omI \in 1..Len(omX.frac) |->
                         IF omI = Len(omX.frac) THEN 1 ELSE 1 - omX.frac[omI]], FALSE)

\* the double literals of the scoring functions
D01 == DDiv(1, 10)

D005 == DDiv(5, 100)

D002 == DDiv(2, 100)

D001 == DDiv(1, 100)

D006 == DDiv(6, 100)

D004 == DDiv(4, 100)

D015 == DDiv(15, 100)

D012 == DDiv(12, 100)

D008 == DDiv(8, 100)

\* a metadata field that is absent, and one that holds a string
undefined == [has |-> FALSE, val |-> <<>>]

Str(stV) == [has |-> TRUE, val |-> stV]

\* a?.x || b || '' over strings
OrElse(oeA, oeB) ==
    IF oeA.has /\ oeA.val # <<>> THEN oeA.val
    ELSE IF oeB.has /\ oeB.val # <<>> THEN oeB.val ELSE <<>>

\* new Date(s).getTime(), in seconds, of "YYYY-MM-DDTHH:mm:ssZ"; any other
\* text of the model's inputs is no date: [nan |-> TRUE]
DateParse(dpS) ==
    LET dpNum(dpA, dpB) == DigitsValue(SubSeq(dpS, dpA, dpB), 0)
        dpShape == /\ Len(dpS) = 20
                   /\ \A dpI \in {1, 2, 3, 4, 6, 7, 9, 10, 12, 13, 15, 16, 18, 19} :
                         IsDigit(dpS[dpI])
                   /\ <<dpS[5], dpS[8], dpS[11], dpS[14], dpS[17], dpS[20]>>
                         = <<"-", "-", "T", ":", ":", "Z">>
        dpDays(dpY, dpM, dpD) ==
            LET dpYy  == IF dpM <= 2 THEN dpY - 1 ELSE dpY
                dpYoe == dpYy % 400
                dpDoy == ((153 * (IF dpM > 2 THEN dpM - 3 ELSE dpM + 9) + 2) \div 5) + dpD - 1
            IN  (dpYy \div 400) * 146097 + dpYoe * 365 + (dpYoe \div 4) - (dpYoe \div 100)
                + dpDoy - 719468
    IN  IF ~dpShape THEN [nan |-> TRUE, time |-> 0]
        ELSE IF dpNum(6, 7) \notin 1..12 \/ dpNum(9, 10) \notin 1..31 \/ dpNum(12, 13) > 23
                \/ dpNum(15, 16) > 59 \/ dpNum(18, 19) > 59
        THEN [nan |-> TRUE, time |-> 0]
        ELSE [nan |-> FALSE,
              time |-> dpDays(dpNum(1, 4), dpNum(6, 7), dpNum(9, 10)) * 86400
                       + dpNum(12, 13) * 3600 + dpNum(15, 16) * 60 + dpNum(18, 19)]

SecondsPerDay == 60 * 60 * 24

\* the branches of calculateRecencyBoost for daysSinceCreation >= 0
RecencyOf(roDays) ==
    IF DLessInt(roDays, 30) THEN DMul(D01, DOneMinus(DDivInt(roDays, 30)))
    ELSE IF DLessInt(roDays, 90)
    THEN DMul(D005, DOneMinus(DDivInt(DAddInt(-30, roDays), 60)))
    ELSE D002

\* a recency boost that depends on the calls made before, not on the clock
calculateRecencyBoostByCall(crCreatedAt, crNow) ==
    IF rerankPc = "once" THEN D002 ELSE DInt(0)

\* calculateRecencyBoost, the clock read by new Date() being crNow (seconds):
\* a negative age takes the first branch, 1 - (-d / 30) = 1 + d / 30, and an
\* invalid date makes every comparison false
calculateRecencyBoost(crCreatedAt, crNow) ==
    IF ~crCreatedAt.has \/ crCreatedAt.val = <<>> THEN DInt(0)
    ELSE LET created == DateParse(crCreatedAt.val)
         IN  IF created.nan THEN D002
             ELSE IF crNow < created.time
             THEN DMul(D01, DAddInt(1, DDivInt(DDiv(created.time - crNow, SecondsPerDay), 30)))
             ELSE RecencyOf(DDiv(crNow - created.time, SecondsPerDay))

\* a metadata match that scores nothing
calculateMetadataMatchNone(mmResult, queryLower) == DInt(0)

\* calculateMetadataMatch
calculateMetadataMatch(mmResult, queryLower) ==
    LET title      == toLowerCase(OrElse(mmResult.metadata.lectureTitle,
                                         mmResult.metadata.resourceTitle))
        instructor == toLowerCase(OrElse(mmResult.metadata.instructor, undefined))
        author     == toLowerCase(OrElse(mmResult.metadata.author, undefined))
        titleWords == SplitWS(title)
        queryParts == SplitWS(queryLower)
        matchingWords ==
            {mmI \in 1..Len(queryParts) :
                \E mmJ \in 1..Len(titleWords) :
                    \/ Includes(titleWords[mmJ], queryParts[mmI])
                    \/ Includes(queryParts[mmI], titleWords[mmJ])}
        titleScore ==
            IF Includes(title, queryLower) THEN D01
            ELSE DMul(DDiv(Cardinality(matchingWords), Len(queryParts)), D005)
    IN  DMin(IF Includes(instructor, queryLower) \/ Includes(author, queryLower)
             THEN DAdd(titleScore, D005) ELSE titleScore,
             D015)

\* A regular expression is a sequence of alternatives, an alternative a
\* sequence of atoms: a literal, or a repeated character class ("s" for \s,
\* "w" for \w, "." for any character but a line terminator, "a" for [\s\S])
\* the character U+0060, which a TLA+ string cannot hold
Backtick == "U+0060"

Lit(ltS) == [str |-> ltS, class |-> "", min |-> 0, lazy |-> FALSE]

Rep(rpClass, rpMin, rpLazy) == [str |-> <<>>, class |-> rpClass, min |-> rpMin, lazy |-> rpLazy]

InClass(icCh, icClass) ==
    IF icClass = "s" THEN IsSpace(icCh)
    ELSE IF icClass = "w"
    THEN IsDigit(icCh) \/ icCh = "_" \/ \E icK \in 1..26 : icCh \in {UpperCase[icK], LowerCase[icK]}
    ELSE IF icClass = "." THEN icCh \notin {"\n", "\r"}
    ELSE TRUE

\* the position after the match of atoms k.. at position p, 0 when there is
\* none: a greedy repetition takes the longest run the rest can follow, a
\* lazy one the shortest
RECURSIVE MatchEnd(_, _, _, _)
MatchEnd(meText, meP, meAtoms, meK) ==
    IF meK > Len(meAtoms) THEN meP
    ELSE IF meAtoms[meK].class = ""
    THEN IF /\ meP + Len(meAtoms[meK].str) - 1 <= Len(meText)
            /\ SubSeq(meText, meP, meP + Len(meAtoms[meK].str) - 1) = meAtoms[meK].str
         THEN MatchEnd(meText, meP + Len(meAtoms[meK].str), meAtoms, meK + 1)
         ELSE 0
    ELSE LET meRun == Cardinality({meN \in 1..(Len(meText) - meP + 1) :
                          \A meI \in 0..(meN - 1) :
                              InClass(meText[meP + meI], meAtoms[meK].class)})
             meOk  == {meN \in meAtoms[meK].min..meRun :
                          MatchEnd(meText, meP + meN, meAtoms, meK + 1) # 0}
         IN  IF meOk = {} THEN 0
             ELSE MatchEnd(meText,
                           meP + (IF meAtoms[meK].lazy THEN MinOf(meOk) ELSE MaxOf(meOk)),
                           meAtoms, meK + 1)

\* the first alternative that matches at p decides
AltEnd(aeText, aeP, aeAlts) ==
    LET aeHits == {aeJ \in 1..Len(aeAlts) : MatchEnd(aeText, aeP, aeAlts[aeJ], 1) # 0}
    IN  IF aeHits = {} THEN 0 ELSE MatchEnd(aeText, aeP, aeAlts[MinOf(aeHits)], 1)

\* text.match(pattern) with the g flag: the number of matches, found left to
\* right, each search resuming where the last match ended
RECURSIVE CountMatches(_, _, _)
CountMatches(cmText, cmAlts, cmFrom) ==
    LET cmStarts == {cmP \in cmFrom..Len(cmText) : AltEnd(cmText, cmP, cmAlts) # 0}
    IN  IF cmStarts = {} THEN 0
        ELSE 1 + CountMatches(cmText, cmAlts, AltEnd(cmText, MinOf(cmStarts), cmAlts))

technicalKeywords ==
    <<<<"c", "o", "d", "e">>, <<"f", "u", "n", "c", "t", "i", "o", "n">>, <<"c", "l", "a", "s", "s">>, <<"i", "m", "p", "o", "r", "t">>, <<"p", "r", "o", "g", "r", "a", "m", "m", "i", "n", "g">>, <<"d", "e", "v", "e", "l", "o", "p", "m", "e", "n", "t">>,
      <<"a", "p", "i">>, <<"d", "a", "t", "a", "b", "a", "s", "e">>, <<"s", "q", "l">>, <<"j", "a", "v", "a", "s", "c", "r", "i", "p", "t">>, <<"p", "y", "t", "h", "o", "n">>, <<"r", "e", "a", "c", "t">>, <<"n", "o", "d", "e">>,
      <<"d", "o", "c", "k", "e", "r">>, <<"k", "u", "b", "e", "r", "n", "e", "t", "e", "s">>, <<"g", "i", "t">>, <<"g", "i", "t", "h", "u", "b">>, <<"d", "e", "p", "l", "o", "y", "m", "e", "n", "t">>, <<"s", "e", "r", "v", "e", "r">>>>

codeIndicators ==
    << << <<Lit(<<Backtick, Backtick, Backtick>>), Rep("a", 0, TRUE), Lit(<<Backtick, Backtick, Backtick>>)>> >>,
       << <<Lit(<<"f", "u", "n", "c", "t", "i", "o", "n">>), Rep("s", 1, FALSE), Rep("w", 1, FALSE)>> >>,
       << <<Lit(<<"c", "l", "a", "s", "s">>), Rep("s", 1, FALSE), Rep("w", 1, FALSE)>> >>,
       << <<Lit(<<"i", "m", "p", "o", "r", "t">>), Rep("s", 1, FALSE), Rep(".", 0, FALSE), Lit(<<"f", "r", "o", "m">>)>> >>,
       << <<Lit(<<"c", "o", "n", "s", "t">>), Rep("s", 1, FALSE), Rep("w", 1, FALSE), Rep("s", 0, FALSE), Lit(<<"=">>)>> >>,
       << <<Lit(<<"l", "e", "t">>), Rep("s", 1, FALSE), Rep("w", 1, FALSE), Rep("s", 0, FALSE), Lit(<<"=">>)>> >>,
       << <<Lit(<<"d", "e", "f">>), Rep("s", 1, FALSE), Rep("w", 1, FALSE)>> >>,
       << <<Lit(<<".", "p", "y">>)>>, <<Lit(<<".", "j", "s">>)>>, <<Lit(<<".", "t", "s">>)>>, <<Lit(<<".", "j", "s", "x">>)>>, <<Lit(<<".", "t", "s", "x">>)>> >>,
       << <<Lit(<<"n", "p", "m">>), Rep("s", 1, FALSE), Lit(<<"i", "n", "s", "t", "a", "l", "l">>)>>,
          <<Lit(<<"p", "i", "p">>), Rep("s", 1, FALSE), Lit(<<"i", "n", "s", "t", "a", "l", "l">>)>> >>,
       << <<Lit(<<"d", "o", "c", "k", "e", "r">>)>>, <<Lit(<<"k", "u", "b", "e", "r", "n", "e", "t", "e", "s">>)>>, <<Lit(<<"k", "8", "s">>)>> >> >>

\* keywords.some(keyword => queryLower.includes(keyword))
SomeIncluded(siKeywords, siQuery) ==
    \E siK \in 1..Len(siKeywords) : Includes(siQuery, siKeywords[siK])

\* codeScore += 0.01 for a pattern that matches, however often
AddMatchesOnce(amScore, amCount) ==
    IF amCount = 0 THEN amScore ELSE DAdd(amScore, D001)

\* codeScore += Math.min(matches.length * 0.01, 0.02), if (matches)
AddMatches(amScore, amCount) ==
    IF amCount = 0 THEN amScore ELSE DAdd(amScore, DMin(DMulInt(D001, amCount), D002))

\* codeScore after the patterns from k on
RECURSIVE CodeScore(_, _, _)
CodeScore(csText, csScore, csK) ==
    IF csK > Len(codeIndicators) THEN csScore
    ELSE CodeScore(csText,
                   AddMatches(csScore, CountMatches(csText, codeIndicators[csK], 1)),
                   csK + 1)

calculateCodePresenceBoost(cpText, queryLower) ==
    IF ~SomeIncluded(technicalKeywords, queryLower) THEN DInt(0)
    ELSE DMin(CodeScore(cpText, DInt(0), 1), D008)

githubKeywords == <<<<"g", "i", "t", "h", "u", "b">>, <<"r", "e", "p", "o", "s", "i", "t", "o", "r", "y">>, <<"r", "e", "p", "o">>, <<"c", "o", "d", "e">>, <<"d", "e", "v", "e", "l", "o", "p", "m", "e", "n", "t">>, <<"g", "i", "t">>>>

videoKeywords == <<<<"v", "i", "d", "e", "o">>, <<"t", "u", "t", "o", "r", "i", "a", "l">>, <<"w", "a", "t", "c", "h">>, <<"d", "e", "m", "o">>, <<"p", "r", "e", "s", "e", "n", "t", "a", "t", "i", "o", "n">>, <<"l", "e", "c", "t", "u", "r", "e">>>>

blogKeywords == <<<<"a", "r", "t", "i", "c", "l", "e">>, <<"b", "l", "o", "g">>, <<"p", "o", "s", "t">>, <<"g", "u", "i", "d", "e">>, <<"t", "u", "t", "o", "r", "i", "a", "l">>, <<"d", "o", "c", "u", "m", "e", "n", "t", "a", "t", "i", "o", "n">>>>

rssKeywords == <<<<"n", "e", "w", "s">>, <<"u", "p", "d", "a", "t", "e">>, <<"f", "e", "e", "d">>, <<"r", "s", "s">>, <<"l", "a", "t", "e", "s", "t">>>>

\* score += boost when the resource is of the kind and the query names it
Boosted(bsScore, bsKind, bsKeywords, bsQuery, bsBoost) ==
    IF bsKind /\ SomeIncluded(bsKeywords, bsQuery) THEN DAdd(bsScore, bsBoost) ELSE bsScore

calculateResourceTypeRelevance(rtResult, queryLower) ==
    LET resourceType == OrElse(rtResult.metadata.type, undefined)
        url          == OrElse(rtResult.metadata.url, undefined)
    IN  DMin(Boosted(Boosted(Boosted(Boosted(DInt(0),
                 resourceType = <<"g", "i", "t", "h", "u", "b">> \/ Includes(url, <<"g", "i", "t", "h", "u", "b", ".", "c", "o", "m">>),
                 githubKeywords, queryLower, D006),
                 resourceType = <<"y", "o", "u", "t", "u", "b", "e">> \/ Includes(url, <<"y", "o", "u", "t", "u", "b", "e", ".", "c", "o", "m">>)
                     \/ Includes(url, <<"y", "o", "u", "t", "u", ".", "b", "e">>),
                 videoKeywords, queryLower, D006),
                 resourceType = <<"b", "l", "o", "g">> \/ Includes(url, <<"b", "l", "o", "g">>)
                     \/ Includes(url, <<"m", "e", "d", "i", "u", "m", ".", "c", "o", "m">>),
                 blogKeywords, queryLower, D006),
                 resourceType = <<"r", "s", "s">>, rssKeywords, queryLower, D004),
             D012)

calculateTitleRelevance(trResult, queryWords) ==
    LET title      == OrElse(trResult.metadata.lectureTitle, trResult.metadata.resourceTitle)
        titleWords == SplitWS(toLowerCase(title))
        matchingWords ==
            Cardinality({trI \in 1..Len(queryWords) :
                \E trJ \in 1..Len(titleWords) :
                    \/ Includes(titleWords[trJ], queryWords[trI])
                    \/ Includes(queryWords[trI], titleWords[trJ])})
    IN  IF title = <<>> THEN DInt(0)
        ELSE IF matchingWords = 0 THEN DInt(0)
        ELSE DMin(DMul(DDiv(matchingWords, Len(queryWords)), D01), D01)

\* const { flag = true } = options
Default(dfOpt) == IF dfOpt.has THEN dfOpt.val ELSE TRUE

\* Math.min(finalScore, 1.0) left out
Uncapped(cpScore) == cpScore

\* Math.min(finalScore, 1.0)
Capped(cpScore) == DMin(cpScore, DInt(1))

\* the factors of one result; a factor whose toggle is off stays 0
Factors(fcResult, queryLower, queryWords, fcOptions, fcNow) ==
    [vectorSimilarity      |-> fcResult.similarity,
     recencyBoost          |-> IF Default(fcOptions.boostRecent)
                               THEN calculateRecencyBoost(fcResult.metadata.created_at, fcNow)
                               ELSE DInt(0),
     metadataMatch         |-> calculateMetadataMatch(fcResult, queryLower),
     codePresence          |-> IF Default(fcOptions.boostTechnical)
                               THEN calculateCodePresenceBoost(fcResult.text, queryLower)
                               ELSE DInt(0),
     resourceTypeRelevance |-> calculateResourceTypeRelevance(fcResult, queryLower),
     titleRelevance        |-> IF Default(fcOptions.boostTitles)
                               THEN calculateTitleRelevance(fcResult, queryWords)
                               ELSE DInt(0)]

\* the returned object with a finalScore that leaves the title relevance out
RescoredWithoutTitle(rsResult, factors) ==
    [id |-> rsResult.id, type |-> rsResult.type, text |-> rsResult.text,
     similarity |-> rsResult.similarity, metadata |-> rsResult.metadata,
     finalScore |-> DMin(DAdd(DAdd(DAdd(DAdd(rsResult.similarity,
                        factors.recencyBoost), factors.metadataMatch), factors.codePresence),
                        factors.resourceTypeRelevance), DInt(1)),
     rankingFactors |-> factors]

\* the object the map callback returns: finalScore is the similarity plus
\* the factors in the order of the source (adding a factor left at 0 changes
\* nothing)
Rescored(rsResult, factors) ==
    [id |-> rsResult.id, type |-> rsResult.type, text |-> rsResult.text,
     similarity |-> rsResult.similarity, metadata |-> rsResult.metadata,
     finalScore |-> Capped(DAdd(DAdd(DAdd(DAdd(DAdd(rsResult.similarity,
                        factors.recencyBoost), factors.metadataMatch), factors.codePresence),
                        factors.resourceTypeRelevance), factors.titleRelevance)),
     rankingFactors |-> factors]

\* the comparator with its sign reversed
compareAscending(cfA, cfB) ==
    IF DLess(cfA.finalScore, cfB.finalScore) THEN -1
    ELSE IF DLess(cfB.finalScore, cfA.finalScore) THEN 1 ELSE 0

\* (a, b) => b.finalScore - a.finalScore, by its sign
compareFn(cfA, cfB) ==
    IF DLess(cfA.finalScore, cfB.finalScore) THEN 1
    ELSE IF DLess(cfB.finalScore, cfA.finalScore) THEN -1 ELSE 0

\* a sort that reverses the elements the comparator calls equal
sortReversingTies(stList) ==
    LET stRank(stI) ==
            Cardinality({stJ \in 1..Len(stList) : compareFn(stList[stJ], stList[stI]) < 0})
            + Cardinality({stJ \in (stI + 1)..Len(stList) :
                              compareFn(stList[stJ], stList[stI]) = 0})
    IN  SubSeq([stK \in 1..Len(stList) |->
                   stList[CHOOSE stI \in 1..Len(stList) : stRank(stI) = stK - 1]],
               1, Len(stList))

\* Array.prototype.sort(compareFn), a stable sort: an element goes after
\* those the comparator puts before it and after the equal ones that
\* preceded it
sort(stList) ==
    LET stRank(stI) ==
            Cardinality({stJ \in 1..Len(stList) : compareFn(stList[stJ], stList[stI]) < 0})
            + Cardinality({stJ \in 1..(stI - 1) : compareFn(stList[stJ], stList[stI]) = 0})
    IN  SubSeq([stK \in 1..Len(stList) |->
                   stList[CHOOSE stI \in 1..Len(stList) : stRank(stI) = stK - 1]],
               1, Len(stList))

\* rerankResults, the clock being rrNow
rerankResults(rrResults, rrQuery, rrOptions, rrNow) ==
    LET queryLower == toLowerCase(rrQuery)
        rrLong(rrWord) == Len(rrWord) > 2
        queryWords == SelectSeq(SplitWS(queryLower), rrLong)
    IN  sort(SubSeq([rrI \in 1..Len(rrResults) |->
                        Rescored(rrResults[rrI],
                                 Factors(rrResults[rrI], queryLower, queryWords,
                                         rrOptions, rrNow))],
                    1, Len(rrResults)))

(***************************************************************************)
(* Chunker specification: chunkVTT applied to bounded segment lists        *)
(***************************************************************************)
MaxSegments == 3

\* n one-character words
Words(wdN, wdCh) == Join([wdI \in 1..wdN |-> <<wdCh>>], <<" ">>)

SampleTexts ==
    { <<"a">>,
      <<"b", "b", " ", "c", "c">>,
      Words(5, "e"),
      Words(8, "a") \o <<" ">> \o <<"d", "d", "d", "d", "d", "d", "d">>,
      <<>>,
      <<" ", "x", " ", "y", " ">> }

SampleConfigs ==
    { [DEFAULT_CHUNKING_CONFIG EXCEPT !.minTokens = 2, !.maxTokens = 3, !.overlap = 0],
      [DEFAULT_CHUNKING_CONFIG EXCEPT !.minTokens = 3, !.maxTokens = 6, !.overlap = 2],
      [DEFAULT_CHUNKING_CONFIG EXCEPT !.minTokens = 5, !.maxTokens = 9, !.overlap = 4] }

\* the k-th cue of a transcript: ten seconds apart, five seconds long
SegmentAt(saK, saText) ==
    [index     |-> saK - 1,
     startTime |-> Clock(0, 0, 10 * saK, 0),
     endTime   |-> Clock(0, 0, 10 * saK + 5, 0),
     text      |-> saText]

SegmentLists ==
    { [slK \in 1..Len(slTexts) |-> SegmentAt(slK, slTexts[slK])] :
        slTexts \in UNION { [1..slN -> SampleTexts] : slN \in 0..MaxSegments } }

ChunkInit ==
    /\ segments \in SegmentLists
    /\ config \in SampleConfigs
    /\ chunks = <<>>
    /\ chunkSrc = <<>>
    /\ chunkPc = "start"
    /\ tsIn = NoValue /\ tsSecs = NoValue /\ tsBack = <<>> /\ tsPc = "idle"
    /\ content = NoContent /\ parsed = NoParse /\ parsedSrc = <<>> /\ parsePc = "idle"
    /\ introSegs = <<>> /\ lectureStart = 0 /\ introKept = <<>>
    /\ introAnalysis = NoAnalysis /\ introPc = "idle"
    /\ RerankIdle
    /\ ValidateIdle
    /\ CacheIdle
    /\ PipelineIdle

\* the chunks returned, with their history
Returns(rtResult) ==
    /\ chunks' = rtResult.chunks
    /\ chunkSrc' = rtResult.src

ChunkVTT ==
    /\ chunkPc = "start"
    /\ Returns(chunkVTT(segments, config))
    /\ chunkPc' = "done"
    /\ UNCHANGED <<segments, config>>
    /\ UNCHANGED <<codecVars, parseVars, introVars, rerankVars, validateVars, cacheVars, pipelineVars>>

ChunkNext == ChunkVTT

SpecChunk == ChunkInit /\ [][ChunkNext]_vars

\* C1: every chunk chunkVTT returns under a valid config has a
\* tokenCount of at most maxTokens, truncated chunks included.
TokenLimitRespected ==
    chunkPc = "done" /\ ValidConfig(config) =>
        \A k \in 1..Len(chunks) : chunks[k].tokenCount <= config.maxTokens

\* C2: a chunk's startTime is the startTime of the first segment appended
\* to it and its endTime is the endTime of the last segment appended to it.
TimesFromOwnSegments ==
    chunkPc = "done" =>
        \A k \in 1..Len(chunks) :
            /\ chunkSrc[k].from # 0
            /\ chunks[k].startTime = segments[chunkSrc[k].from].startTime
            /\ chunks[k].endTime = segments[chunkSrc[k].to].endTime

\* C3: the chunk at position k (from 0) of the returned array has
\* chunkIndex k and hasOverlap exactly when k > 0.
IndexIsPosition ==
    chunkPc = "done" =>
        \A k \in 1..Len(chunks) :
            /\ chunks[k].metadata.chunkIndex = k - 1
            /\ chunks[k].metadata.hasOverlap = (k - 1 > 0)

\* C3 witness: a result where the chunks of a split segment are followed by a
\* chunk emitted on overflow and then by the final flush.
IndexAcrossPaths ==
    /\ chunkPc = "done"
    /\ \E j \in 1..Len(chunks) :
        /\ j + 3 = Len(chunks)
        /\ chunkSrc[j] = chunkSrc[j + 1]
        /\ chunkSrc[j + 1].to < chunkSrc[j + 2].from
        /\ chunkSrc[j + 2].to < chunkSrc[j + 3].from

\* C4: under a valid config only the last chunk may have a tokenCount
\* below minTokens.
OnlyLastShort ==
    chunkPc = "done" /\ ValidConfig(config) =>
        \A k \in 1..Len(chunks) :
            chunks[k].tokenCount < config.minTokens => k = Len(chunks)

(***************************************************************************)
(* Parser specification: parseVTT applied to bounded file contents         *)
(***************************************************************************)
MaxLines == 4

Arrow == <<" ", "-", "-", ">", " ">>

SampleLines ==
    { WEBVTT,
      <<>>,
      <<" ", "7", " ">>,
      Clock(0, 0, 1, 0) \o Arrow \o Clock(0, 0, 4, 0),
      Clock(0, 0, 0, 500) \o Arrow \o Clock(0, 0, 0, 200),
      <<"S", "t", "e", "p", " ", "7", " ", "b", "e", "g", "i", "n", "s">>,
      <<"h", "i", "\r">> }

\* file contents of up to MaxLines lines, and values that are not strings
Contents ==
    { StringValue(Join(cnLines, <<"\n">>)) :
        cnLines \in UNION { [1..cnN -> SampleLines] : cnN \in 0..MaxLines } }
    \cup NonStrings

ParseInit ==
    /\ content \in Contents
    /\ parsed = NoParse
    /\ parsedSrc = <<>>
    /\ parsePc = "start"
    /\ tsIn = NoValue /\ tsSecs = NoValue /\ tsBack = <<>> /\ tsPc = "idle"
    /\ segments = <<>> /\ config = DEFAULT_CHUNKING_CONFIG /\ chunks = <<>>
    /\ chunkSrc = <<>> /\ chunkPc = "idle"
    /\ introSegs = <<>> /\ lectureStart = 0 /\ introKept = <<>>
    /\ introAnalysis = NoAnalysis /\ introPc = "idle"
    /\ RerankIdle
    /\ ValidateIdle
    /\ CacheIdle
    /\ PipelineIdle

ParseVTT ==
    /\ parsePc = "start"
    /\ LET pvResult == parseVTT(content)
       IN  /\ parsed' = [threw |-> pvResult.threw, segments |-> pvResult.segments]
           /\ parsedSrc' = pvResult.src
    /\ parsePc' = "done"
    /\ UNCHANGED content
    /\ UNCHANGED <<codecVars, chunkVars, introVars, rerankVars, validateVars, cacheVars, pipelineVars>>

ParseNext == ParseVTT

SpecParse == ParseInit /\ [][ParseNext]_vars

\* the lines of the file
Lines == SplitChar(content.str, "\n")

\* a timestamp as whole milliseconds
MillisOf(moT) == Millis(timestampToSeconds(moT).val)

\* C5: in the list parseVTT returns every segment ends after it starts and
\* the start times never decrease along the list.
SegmentsOrdered ==
    parsePc = "done" /\ ~parsed.threw =>
        /\ \A k \in 1..Len(parsed.segments) :
              MillisOf(parsed.segments[k].endTime) > MillisOf(parsed.segments[k].startTime)
        /\ \A k \in 1..(Len(parsed.segments) - 1) :
              MillisOf(parsed.segments[k].startTime)
                 <= MillisOf(parsed.segments[k + 1].startTime)

\* the line holds a digit and is no sequence number and no cue line
MixedLine(mxLine) ==
    /\ \E mxI \in 1..Len(mxLine) : IsDigit(mxLine[mxI])
    /\ ~AllDigits(Trim(mxLine))
    /\ ~parseTimestampLine(Trim(mxLine)).match

\* C6: a line whose trimmed form is only digits is never part of a segment's
\* text: outside a cue it is skipped and inside a cue it ends the cue.  A line
\* that mixes digits with other characters is kept verbatim (trimmed) in the
\* text of the cue it continues.
SequenceNumbersFiltered ==
    parsePc = "done" /\ ~parsed.threw =>
        \* a mixed line right after a cue line opens the text of that cue
        /\ \A c \in 1..(Len(Lines) - 1) :
              parseTimestampLine(Trim(Lines[c])).match /\ MixedLine(Lines[c + 1]) =>
                  \E k \in 1..Len(parsed.segments) :
                      parsedSrc[k].cue = c /\ parsedSrc[k].lines[1] = c + 1
        /\ \A k \in 1..Len(parsed.segments) :
            LET srcK == parsedSrc[k]
            IN  /\ \A j \in 1..Len(srcK.lines) : ~AllDigits(Trim(Lines[srcK.lines[j]]))
                /\ parsed.segments[k].text =
                      Trim(Join([j \in 1..Len(srcK.lines) |-> Trim(Lines[srcK.lines[j]])],
                                <<" ">>))
                \* the text lines are the run of lines after the cue line ...
                /\ \A j \in 1..Len(srcK.lines) : srcK.lines[j] = srcK.cue + j
                \* ... and the run stops only at the end of the file, a blank line,
                \* a sequence number or the next cue line, never at a mixed line
                /\ LET nxt == srcK.cue + Len(srcK.lines) + 1
                   IN  nxt <= Len(Lines) => ~MixedLine(Lines[nxt])

\* C6 witness: a cue whose text keeps a mixed line and is ended by a sequence number.
MixedKeptDigitsDropped ==
    /\ parsePc = "done" /\ ~parsed.threw
    /\ \E k \in 1..Len(parsed.segments) :
        LET srcK == parsedSrc[k]
            nxt  == srcK.cue + Len(srcK.lines) + 1
        IN  /\ \E j \in 1..Len(srcK.lines) : MixedLine(Lines[srcK.lines[j]])
            /\ nxt <= Len(Lines) /\ AllDigits(Trim(Lines[nxt]))
            /\ Includes(parsed.segments[k].text, <<"S", "t", "e", "p", " ", "7">>)

\* C7: parseVTT throws exactly when its argument is empty or not a string;
\* for every non-empty string it returns a list, empty for a header-only file.
ThrowsOnlyOnEmpty ==
    parsePc = "done" =>
        /\ parsed.threw <=> (content.type # "string" \/ content.str = <<>>)
        /\ content = StringValue(WEBVTT) => parsed.segments = <<>>

\* C7 witness: a non-string argument was rejected.
NonStringRejected == parsePc = "done" /\ content.type # "string" /\ parsed.threw

(***************************************************************************)
(* Intro specification: findLectureStart applied to bounded segment lists  *)
(***************************************************************************)
MaxTail == 2

\* n copies of a character
Repeat(rpN, rpCh) == [rpI \in 1..rpN |-> rpCh]

KeywordText == <<"W", "E", "L", "C", "O", "M", "E", " ", "T", "O", " ", "o", "u", "r", " ", "c", "l", "a", "s", "s", " ", "n", "o", "w">>

ShortKeywordText == <<"a", "g", "e", "n", "d", "a", " ", "f", "o", "r", " ", "t", "h", "i", "s", " ", "w", "e", "e", "k">>

Early == Clock(0, 0, 5, 0)

AtTenMinutes == Clock(0, 10, 0, 0)

Late == Clock(0, 10, 0, 1)

FifteenMinutes == Clock(0, 15, 0, 0)

SampleSegments ==
    { [text |-> KeywordText, startTime |-> Early],
      [text |-> ShortKeywordText, startTime |-> Early],
      [text |-> ShortKeywordText, startTime |-> Late],
      [text |-> Repeat(FallbackLength + 1, "x"), startTime |-> Late],
      [text |-> Repeat(FallbackLength + 1, "x"), startTime |-> FifteenMinutes],
      [text |-> Repeat(FallbackLength + 1, "x"), startTime |-> AtTenMinutes],
      [text |-> Repeat(FallbackLength, "x"), startTime |-> Late],
      [text |-> Repeat(FallbackLength + 1, "x"), startTime |-> Early],
      [text |-> KeywordText \o Repeat(FallbackLength, "x"), startTime |-> Late] }

Filler == [text |-> <<"u", "m">>, startTime |-> Early]

\* a run of filler cues followed by up to MaxTail sample cues, so that the
\* samples sit before, at and after the end of the keyword window
IntroLists ==
    { [ilK \in 1..(ilPre + Len(ilTail)) |->
          LET ilS == IF ilK <= ilPre THEN Filler ELSE ilTail[ilK - ilPre]
          IN  [index |-> ilK - 1, startTime |-> ilS.startTime,
               endTime |-> ilS.startTime, text |-> ilS.text]] :
        ilPre \in {0, KeywordWindow - 2, KeywordWindow - 1, KeywordWindow},
        ilTail \in UNION { [1..ilN -> SampleSegments] : ilN \in 0..MaxTail } }

IntroInit ==
    /\ introSegs \in IntroLists
    /\ lectureStart = 0
    /\ introKept = <<>>
    /\ introAnalysis = NoAnalysis
    /\ introPc = "start"
    /\ tsIn = NoValue /\ tsSecs = NoValue /\ tsBack = <<>> /\ tsPc = "idle"
    /\ segments = <<>> /\ config = DEFAULT_CHUNKING_CONFIG /\ chunks = <<>>
    /\ chunkSrc = <<>> /\ chunkPc = "idle"
    /\ content = NoContent /\ parsed = NoParse /\ parsedSrc = <<>> /\ parsePc = "idle"
    /\ RerankIdle
    /\ ValidateIdle
    /\ CacheIdle
    /\ PipelineIdle

FindLectureStart ==
    /\ introPc = "start"
    /\ lectureStart' = findLectureStart(introSegs)
    /\ introPc' = "done"
    /\ UNCHANGED <<introSegs, introKept, introAnalysis>>
    /\ UNCHANGED <<codecVars, chunkVars, parseVars, rerankVars, validateVars, cacheVars, pipelineVars>>

\* the caller's cut of the list at the index found
FilterIntroSegments ==
    /\ introPc = "done"
    /\ introKept' = filterIntroSegments(introSegs, lectureStart)
    /\ introPc' = "filtered"
    /\ UNCHANGED <<introSegs, lectureStart, introAnalysis>>
    /\ UNCHANGED <<codecVars, chunkVars, parseVars, rerankVars, validateVars, cacheVars, pipelineVars>>

AnalyzeIntroContent ==
    /\ introPc = "start"
    /\ introAnalysis' = analyzeIntroContent(introSegs)
    /\ introPc' = "analyzed"
    /\ UNCHANGED <<introSegs, lectureStart, introKept>>
    /\ UNCHANGED <<codecVars, chunkVars, parseVars, rerankVars, validateVars, cacheVars, pipelineVars>>

IntroNext == FindLectureStart \/ FilterIntroSegments \/ AnalyzeIntroContent

SpecIntro == IntroInit /\ [][IntroNext]_vars

\* segment i (from 0) matches tier 1: its lower-cased text is longer than 20
\* characters and contains a start keyword
KeywordHit(khI) ==
    LET lowered == toLowerCase(introSegs[khI + 1].text)
    IN  /\ Len(lowered) > 20
        /\ \E w \in 1..Len(LECTURE_START_KEYWORDS) :
              Includes(lowered, LECTURE_START_KEYWORDS[w])

\* segment i (from 0) matches tier 2: it starts after 600 s and its text is
\* longer than 50 characters
LateHit(lhI) ==
    /\ MillisOf(introSegs[lhI + 1].startTime) > 600 * 1000
    /\ Len(introSegs[lhI + 1].text) > 50

\* C10: findLectureStart returns the least index below min(n, 20) that matches
\* tier 1 when there is one, even if an earlier segment matches tier 2; else
\* the least index of the whole list that matches tier 2; else 0.
TwoTierStart ==
    introPc = "done" =>
        LET n        == Len(introSegs)
            window   == IF n < 20 THEN n ELSE 20
            keywords == {i \in 0..(window - 1) : KeywordHit(i)}
            late     == {i \in 0..(n - 1) : LateHit(i)}
        IN  /\ keywords # {} =>
                 lectureStart \in keywords /\ \A i \in keywords : lectureStart <= i
            /\ keywords = {} /\ late # {} =>
                 lectureStart \in late /\ \A i \in late : lectureStart <= i
            /\ keywords = {} /\ late = {} => lectureStart = 0

\* C10 witness: tier 1 won although an earlier segment matched tier 2.
KeywordBeatsFallback ==
    /\ introPc = "done"
    /\ lectureStart > 0
    /\ KeywordHit(lectureStart)
    /\ \E i \in 0..(lectureStart - 1) : LateHit(i)

\* C11: on a list of n segments with well-formed start times findLectureStart
\* returns, without throwing, 0 when n = 0 and an index i with 0 <= i < n when
\* n > 0, so the list cut at i is empty only when the list was.
StartInRange ==
    introPc \in {"done", "filtered"} =>
        /\ \A k \in 1..Len(introSegs) : ~timestampToSeconds(introSegs[k].startTime).threw
        /\ Len(introSegs) = 0 => lectureStart = 0
        /\ Len(introSegs) > 0 => 0 <= lectureStart /\ lectureStart < Len(introSegs)
        /\ introPc = "filtered" /\ Len(introSegs) > 0 => Len(introKept) > 0

\* C11 witness: the start found is the last segment, and the cut keeps just it.
LastSegmentKept ==
    /\ introPc = "filtered"
    /\ Len(introSegs) > 1
    /\ lectureStart = Len(introSegs) - 1
    /\ introKept = <<introSegs[Len(introSegs)]>>

\* the tier that produced the start index of the analysed list
TierOf(toSegs) ==
    LET n        == Len(toSegs)
        window   == IF n < 20 THEN n ELSE 20
        lowered(i) == toLowerCase(toSegs[i + 1].text)
    IN  IF \E i \in 0..(window - 1) :
              /\ Len(lowered(i)) > 20
              /\ \E w \in 1..Len(LECTURE_START_KEYWORDS) :
                    Includes(lowered(i), LECTURE_START_KEYWORDS[w])
        THEN "keyword"
        ELSE IF \E i \in 0..(n - 1) :
                   /\ MillisOf(toSegs[i + 1].startTime) > 600 * 1000
                   /\ Len(toSegs[i + 1].text) > 50
        THEN "time"
        ELSE "none"

\* C12: analyzeIntroContent reports confidence high exactly when the keyword
\* tier produced the start index, medium exactly when the time tier produced
\* it at a start offset under 15 minutes, and low otherwise.
ConfidenceByTier ==
    introPc = "analyzed" =>
        LET tier   == TierOf(introSegs)
            offset == IF Len(introSegs) = 0 THEN 0
                      ELSE MillisOf(introSegs[introAnalysis.lectureStartIndex + 1].startTime)
        IN  /\ introAnalysis.confidence = "high" <=> tier = "keyword"
            /\ introAnalysis.confidence = "medium" <=>
                  tier = "time" /\ offset < 15 * 60 * 1000
            /\ introAnalysis.confidence = "low" <=>
                  tier = "none" \/ (tier = "time" /\ offset >= 15 * 60 * 1000)

(***************************************************************************)
(* Reranker specification: rerankResults called, once and again, on        *)
(* bounded candidate lists while the clock advances                        *)
(***************************************************************************)
MaxTicks == 1

TickSeconds == 45 * SecondsPerDay

\* the clock at the start, and the creation timestamps of the candidates
StartOfClock == DateParse(<<"2", "0", "2", "4", "-", "0", "3", "-", "0", "1", "T", "0", "0", ":", "0", "0", ":", "0", "0", "Z">>).time

Recent == Str(<<"2", "0", "2", "4", "-", "0", "2", "-", "2", "9", "T", "1", "2", ":", "0", "0", ":", "0", "0", "Z">>)

Old == Str(<<"2", "0", "2", "3", "-", "0", "6", "-", "0", "1", "T", "0", "0", ":", "0", "0", ":", "0", "0", "Z">>)

Future == Str(<<"2", "0", "2", "4", "-", "0", "5", "-", "0", "1", "T", "0", "0", ":", "0", "0", ":", "0", "0", "Z">>)

Unparseable == Str(<<"s", "o", "o", "n">>)

NoMetadata ==
    [lectureTitle |-> undefined, resourceTitle |-> undefined, instructor |-> undefined,
     author |-> undefined, created_at |-> undefined, type |-> undefined, url |-> undefined]

RecentLecture ==
    [NoMetadata EXCEPT !.lectureTitle = Str(<<"D", "o", "c", "k", "e", "r", " ", "D", "e", "e", "p", " ", "D", "i", "v", "e">>),
                       !.instructor = Str(<<"J", "o", "h", "n">>), !.created_at = Recent]

OldResource ==
    [NoMetadata EXCEPT !.resourceTitle = Str(<<"O", "l", "d", " ", "N", "o", "t", "e", "s">>), !.author = Str(<<"A", "n", "n">>),
                       !.type = Str(<<"g", "i", "t", "h", "u", "b">>), !.url = Str(<<"h", "t", "t", "p", "s", ":", "/", "/", "g", "i", "t", "h", "u", "b", ".", "c", "o", "m", "/", "a", "/", "b">>),
                       !.created_at = Old]

FutureLecture ==
    [NoMetadata EXCEPT !.lectureTitle = Str(<<"D", "o", "c", "k", "e", "r", " ", "D", "e", "e", "p", " ", "D", "i", "v", "e">>), !.created_at = Future]

UndatedBlog ==
    [NoMetadata EXCEPT !.instructor = Str(<<>>), !.type = Str(<<"b", "l", "o", "g">>),
                       !.created_at = Unparseable]

CodeText == <<"f", "u", "n", "c", "t", "i", "o", "n", " ", "g", "o", "(", ")", " ", "r", "u", "n", "s", " ", "d", "o", "c", "k", "e", "r", " ", "i", "n", " ", "d", "o", "c", "k", "e", "r">>

PlainText == <<"T", "e", "s", "t", " ", "c", "o", "n", "t", "e", "n", "t">>

\* a candidate without its id
Candidate(cdSimilarity, cdMetadata) ==
    [type |-> IF cdMetadata.resourceTitle.has THEN "resource" ELSE "lecture",
     text |-> IF cdMetadata.lectureTitle.has THEN CodeText ELSE PlainText,
     similarity |-> cdSimilarity, metadata |-> cdMetadata]

\* the candidates of the lists of three
Podium ==
    {Candidate(DDiv(8, 10), RecentLecture), Candidate(DDiv(8, 10), OldResource),
     Candidate(DInt(1), OldResource)}

Candidates ==
    Podium \cup {Candidate(DInt(1), RecentLecture), Candidate(DDiv(8, 10), NoMetadata),
                 Candidate(DDiv(8, 10), FutureLecture), Candidate(DInt(0), UndatedBlog)}

\* the candidates of a list get their positions as ids
WithIds(wiList) ==
    SubSeq([wiI \in 1..Len(wiList) |->
               [id |-> NatToString(wiI), type |-> wiList[wiI].type, text |-> wiList[wiI].text,
                similarity |-> wiList[wiI].similarity, metadata |-> wiList[wiI].metadata]],
           1, Len(wiList))

\* a candidate created 29 days before the start of the clock
MonthOld == Str(<<"2", "0", "2", "4", "-", "0", "2", "-", "0", "1", "T", "0", "0", ":", "0", "0", ":", "0", "0", "Z">>)

MonthOldNote == [NoMetadata EXCEPT !.created_at = MonthOld]

\* lists that put the candidate of 29 days next to a newer and an older one
AgeingLists ==
    {WithIds(<<alA, alB>>) :
        alA \in {Candidate(DDiv(8, 10), MonthOldNote)},
        alB \in {Candidate(DDiv(8, 10), RecentLecture), Candidate(DDiv(8, 10), OldResource)}}

ResultLists ==
    {<<>>} \cup {WithIds(<<rlA>>) : rlA \in Candidates}
           \cup {WithIds(<<rlA, rlB>>) : rlA \in Candidates, rlB \in Candidates}
           \cup {WithIds(<<rlA, rlB, rlC>>) : rlA \in Podium, rlB \in Podium, rlC \in Podium}
           \cup AgeingLists

SampleQueries ==
    { <<"D", "o", "c", "k", "e", "r">>,
      <<"G", "i", "t", "H", "u", "b", " ", "c", "o", "d", "e", " ", "t", "u", "t", "o", "r", "i", "a", "l">>,
      <<"I", "n", "t", "r", "o">> }

SampleOptions ==
    {[boostRecent |-> Unset, boostTechnical |-> Unset, boostTitles |-> Unset],
     [boostRecent |-> Flag(FALSE), boostTechnical |-> Flag(FALSE), boostTitles |-> Flag(FALSE)]}

RerankInit ==
    /\ results \in ResultLists
    /\ query \in SampleQueries
    /\ options \in SampleOptions
    /\ now = StartOfClock
    /\ reranked = <<>>
    /\ earlier = <<>>
    /\ rerankPc = "start"
    /\ tsIn = NoValue /\ tsSecs = NoValue /\ tsBack = <<>> /\ tsPc = "idle"
    /\ segments = <<>> /\ config = DEFAULT_CHUNKING_CONFIG /\ chunks = <<>>
    /\ chunkSrc = <<>> /\ chunkPc = "idle"
    /\ content = NoContent /\ parsed = NoParse /\ parsedSrc = <<>> /\ parsePc = "idle"
    /\ introSegs = <<>> /\ lectureStart = 0 /\ introKept = <<>>
    /\ introAnalysis = NoAnalysis /\ introPc = "idle"
    /\ ValidateIdle
    /\ CacheIdle
    /\ PipelineIdle

\* the clock advances
Tick ==
    /\ now < StartOfClock + MaxTicks * TickSeconds
    /\ now' = now + TickSeconds
    /\ UNCHANGED <<results, query, options, reranked, earlier, rerankPc>>
    /\ UNCHANGED <<codecVars, chunkVars, parseVars, introVars, validateVars, cacheVars, pipelineVars>>

\* a call of rerankResults; the return of the call before is kept
RerankResults ==
    /\ rerankPc \in {"start", "once"}
    /\ reranked' = rerankResults(results, query, options, now)
    /\ earlier' = reranked
    /\ rerankPc' = IF rerankPc = "start" THEN "once" ELSE "twice"
    /\ UNCHANGED <<results, query, options, now>>
    /\ UNCHANGED <<codecVars, chunkVars, parseVars, introVars, validateVars, cacheVars, pipelineVars>>

RerankNext == Tick \/ RerankResults

SpecRerank == RerankInit /\ [][RerankNext]_vars

\* the position in results of the candidate a returned entry was made from
InputPosition(ipEntry) == DigitsValue(ipEntry.id, 0)

Called == rerankPc \in {"once", "twice"}

\* C13: rerankResults returns exactly one entry per candidate, each with the
\* id, type, text, similarity and metadata of its candidate unchanged, and
\* finalScore never increases from one position of the returned list to the
\* next.
OnePerCandidateSorted ==
    Called =>
        /\ Len(reranked) = Len(results)
        /\ \A opI \in 1..Len(results) :
              /\ Cardinality({opK \in 1..Len(reranked) :
                                 reranked[opK].id = results[opI].id}) = 1
              /\ \A opK \in 1..Len(reranked) :
                    reranked[opK].id = results[opI].id =>
                        /\ reranked[opK].type = results[opI].type
                        /\ reranked[opK].text = results[opI].text
                        /\ reranked[opK].similarity = results[opI].similarity
                        /\ reranked[opK].metadata = results[opI].metadata
        /\ \A opK \in 1..(Len(reranked) - 1) :
              ~DLess(reranked[opK].finalScore, reranked[opK + 1].finalScore)

\* three candidates returned, the last of the input first
ReorderedTriple ==
    /\ Called
    /\ Len(reranked) = 3
    /\ InputPosition(reranked[1]) = 3
    /\ DLess(reranked[3].finalScore, reranked[1].finalScore)

\* C14: for candidates whose similarity lies in [0, 1], any query, any
\* toggles and any creation timestamp (missing, past, future, unparseable),
\* every finalScore returned lies in [0, 1].
ScoreInUnitInterval ==
    Called =>
        \A suK \in 1..Len(reranked) :
            /\ ~reranked[suK].finalScore.nan
            /\ reranked[suK].finalScore.int >= 0
            /\ ~DLess(DInt(1), reranked[suK].finalScore)

\* a candidate created in the future whose boosts carry the sum over 1, and
\* one with an unparseable timestamp, are returned
FutureAndUnparseableScored ==
    /\ Called
    /\ \E suK \in 1..Len(reranked) :
          /\ reranked[suK].metadata.created_at = Future
          /\ DLess(D01, reranked[suK].rankingFactors.recencyBoost)
          /\ DLess(DInt(1), DAdd(reranked[suK].similarity,
                                 reranked[suK].rankingFactors.recencyBoost))
          /\ reranked[suK].finalScore = DInt(1)
    /\ \E suK \in 1..Len(reranked) :
          /\ reranked[suK].metadata.created_at = Unparseable
          /\ reranked[suK].rankingFactors.recencyBoost = D002

\* C15: of two candidates with equal similarity, one created very recently
\* whose title matches the query and one old whose metadata does not match
\* it, the first gets the strictly greater finalScore and the earlier place.
RecentMatchOutranksOld ==
    (Called /\ now = StartOfClock /\ query = <<"D", "o", "c", "k", "e", "r">>) =>
        \A rmA \in 1..Len(reranked) : \A rmB \in 1..Len(reranked) :
            (/\ reranked[rmA].metadata = RecentLecture
             /\ reranked[rmB].metadata = OldResource
             /\ reranked[rmA].similarity = reranked[rmB].similarity)
            => /\ DLess(reranked[rmB].finalScore, reranked[rmA].finalScore)
               /\ rmA < rmB

\* C16: for a candidate whose metadata lacks every field and a non-empty
\* query, the factors derived from the missing fields (recencyBoost,
\* metadataMatch, resourceTypeRelevance, titleRelevance) are exactly 0.
MissingFieldsScoreZero ==
    (Called /\ query # <<>>) =>
        \A mfK \in 1..Len(reranked) :
            reranked[mfK].metadata = NoMetadata =>
                /\ reranked[mfK].rankingFactors.recencyBoost = DInt(0)
                /\ reranked[mfK].rankingFactors.metadataMatch = DInt(0)
                /\ reranked[mfK].rankingFactors.resourceTypeRelevance = DInt(0)
                /\ reranked[mfK].rankingFactors.titleRelevance = DInt(0)

\* C17: two returned entries with exactly the same finalScore, both clamped
\* to 1.0 included, keep the relative order their candidates had in the
\* input.
TiesKeepInputOrder ==
    Called =>
        \A tkK \in 1..Len(reranked) : \A tkL \in (tkK + 1)..Len(reranked) :
            reranked[tkK].finalScore = reranked[tkL].finalScore =>
                InputPosition(reranked[tkK]) < InputPosition(reranked[tkL])

\* two candidates whose sums differ are both clamped to 1.0 and returned in
\* the order of the input, the one with the smaller boost first
ClampedTieKept ==
    /\ Called
    /\ Len(reranked) = 2
    /\ reranked[1].finalScore = DInt(1) /\ reranked[2].finalScore = DInt(1)
    /\ InputPosition(reranked[1]) = 1
    /\ DLess(reranked[1].rankingFactors.metadataMatch,
             reranked[2].rankingFactors.metadataMatch)

RecentMatchOutranksUncappedOld ==
    (Called /\ now = StartOfClock /\ query = <<"D", "o", "c", "k", "e", "r">>) =>
        \A rmA \in 1..Len(reranked) : \A rmB \in 1..Len(reranked) :
            (/\ reranked[rmA].metadata = RecentLecture
             /\ reranked[rmB].metadata = OldResource
             /\ reranked[rmA].similarity = reranked[rmB].similarity
             /\ DLess(reranked[rmB].finalScore, DInt(1)))
            => /\ DLess(reranked[rmB].finalScore, reranked[rmA].finalScore)
               /\ rmA < rmB

\* the old candidate came first in the input and the recent one overtook it
RecentOvertakesOld ==
    /\ Called /\ now = StartOfClock /\ query = <<"D", "o", "c", "k", "e", "r">>
    /\ Len(reranked) = 2
    /\ reranked[1].metadata = RecentLecture /\ InputPosition(reranked[1]) = 2
    /\ reranked[2].metadata = OldResource
    /\ reranked[1].similarity = reranked[2].similarity
    /\ DLess(reranked[2].finalScore, reranked[1].finalScore)

MaxTokenField == 2

CandidateConfigs ==
    {DEFAULT_CHUNKING_CONFIG} \cup
    {[minTokens |-> ccMin, maxTokens |-> ccMax, overlap |-> ccOverlap,
      respectBoundaries |-> ccBoundaries] :
        ccMin \in -1..MaxTokenField, ccMax \in -1..MaxTokenField,
        ccOverlap \in -1..MaxTokenField,
        ccBoundaries \in {ArrayValue(<< <<".", " ">> >>), NotAnArray}}

ValidateInit ==
    /\ candidate \in CandidateConfigs
    /\ validation = [isValid |-> TRUE, errors |-> <<>>]
    /\ validatePc = "start"
    /\ tsIn = NoValue /\ tsSecs = NoValue /\ tsBack = <<>> /\ tsPc = "idle"
    /\ segments = <<>> /\ config = DEFAULT_CHUNKING_CONFIG /\ chunks = <<>>
    /\ chunkSrc = <<>> /\ chunkPc = "idle"
    /\ content = NoContent /\ parsed = NoParse /\ parsedSrc = <<>> /\ parsePc = "idle"
    /\ introSegs = <<>> /\ lectureStart = 0 /\ introKept = <<>>
    /\ introAnalysis = NoAnalysis /\ introPc = "idle"
    /\ RerankIdle
    /\ CacheIdle
    /\ PipelineIdle

ValidateChunkingConfig ==
    /\ validatePc = "start"
    /\ validation' = validateChunkingConfig(candidate)
    /\ validatePc' = "done"
    /\ UNCHANGED candidate
    /\ UNCHANGED <<codecVars, chunkVars, parseVars, introVars, rerankVars, cacheVars, pipelineVars>>

ValidateNext == ValidateChunkingConfig

SpecValidate == ValidateInit /\ [][ValidateNext]_vars

\* the messages of a returned errors list
Reported(rpMessage) == \E rpI \in 1..Len(validation.errors) : validation.errors[rpI] = rpMessage

\* C19: validateChunkingConfig returns isValid = true exactly when
\* minTokens > 0, maxTokens > minTokens, 0 <= overlap < minTokens and
\* respectBoundaries is an array; errors holds one message for each violated
\* condition, all of them and each once; DEFAULT_CHUNKING_CONFIG is valid.
ValidExactlyWhenInvariants ==
    /\ validateChunkingConfig(DEFAULT_CHUNKING_CONFIG).isValid
    /\ validatePc = "done" =>
          /\ validation.isValid <=>
                /\ candidate.minTokens > 0
                /\ candidate.maxTokens > candidate.minTokens
                /\ 0 <= candidate.overlap /\ candidate.overlap < candidate.minTokens
                /\ candidate.respectBoundaries.type = "array"
          /\ Reported("minTokens must be greater than 0") <=> ~(candidate.minTokens > 0)
          /\ Reported("maxTokens must be greater than minTokens")
                <=> ~(candidate.maxTokens > candidate.minTokens)
          /\ Reported("overlap must be non-negative") <=> ~(0 <= candidate.overlap)
          /\ Reported("overlap must be less than minTokens")
                <=> ~(candidate.overlap < candidate.minTokens)
          /\ Reported("respectBoundaries must be an array")
                <=> candidate.respectBoundaries.type # "array"
          /\ \A veI \in 1..Len(validation.errors) : \A veJ \in 1..Len(validation.errors) :
                validation.errors[veI] = validation.errors[veJ] => veI = veJ

\* a config that violates every condition gets all five messages
FiveViolationsReported ==
    /\ validatePc = "done"
    /\ Len(validation.errors) = 5
    /\ ~validation.isValid

(***************************************************************************)
(* Cues of a file, read off its lines                                      *)
(***************************************************************************)
RangeLine(rlK) == parseTimestampLine(Trim(Lines[rlK])).match

\* a line that is neither blank, nor digits only, nor a timestamp range
TextLine(tlK) ==
    /\ Trim(Lines[tlK]) # <<>>
    /\ ~AllDigits(Trim(Lines[tlK]))
    /\ ~RangeLine(tlK)

\* the timestamp-range lines immediately followed by a text line, in order
CueLines ==
    SortedSeq({clK \in 1..(Len(Lines) - 1) : RangeLine(clK) /\ TextLine(clK + 1)})

\* the last line of the run of text lines after line k
LastTextLine(ltK) ==
    MaxOf({ltJ \in ltK..Len(Lines) : \A ltM \in (ltK + 1)..ltJ : TextLine(ltM)})

\* the segment of the cue that starts at line k, without its index
CueAt(caK) ==
    [startTime |-> parseTimestampLine(Trim(Lines[caK])).startTime,
     endTime   |-> parseTimestampLine(Trim(Lines[caK])).endTime,
     text      |-> Join([caM \in 1..(LastTextLine(caK) - caK) |-> Trim(Lines[caK + caM])],
                        <<" ">>)]

\* C20: parseVTT returns, in input order, exactly one segment for each
\* timestamp-range line immediately followed by a text line; its text is the
\* following lines, trimmed and joined by single spaces, up to the first
\* blank, digit-only or timestamp-range line; a timestamp-range line that
\* ends a cue starts the next one; text lines outside a cue are in no segment
\* and stop no later cue.
OneSegmentPerCue ==
    parsePc = "done" /\ ~parsed.threw =>
        /\ Len(parsed.segments) = Len(CueLines)
        /\ \A osN \in 1..Len(parsed.segments) :
              /\ parsed.segments[osN].startTime = CueAt(CueLines[osN]).startTime
              /\ parsed.segments[osN].endTime = CueAt(CueLines[osN]).endTime
              /\ parsed.segments[osN].text = CueAt(CueLines[osN]).text

\* a timestamp-range line ends the first cue and starts the second
RangeLineEndsCue ==
    /\ parsePc = "done" /\ ~parsed.threw
    /\ Len(Lines) = 4
    /\ CueLines = <<1, 3>>
    /\ Len(parsed.segments) = 2
    /\ parsed.segments[1].startTime # parsed.segments[2].startTime

\* ---------------------------------------------------------------------------
\* Segment numbering of parseVTT
\* ---------------------------------------------------------------------------

\* the content holds a valid range line for which no segment was pushed,
\* followed later by a range line that gave a segment
DiscardedCueBeforeKept ==
    \E dkI \in 1..Len(Lines) :
        /\ parseTimestampLine(Trim(Lines[dkI])).match
        /\ \A dkK \in 1..Len(parsedSrc) : parsedSrc[dkK].cue # dkI
        /\ \E dkK \in 1..Len(parsedSrc) : parsedSrc[dkK].cue > dkI

\* C21: in every list parseVTT returns, the segment at position k (from 0) has
\* index k, and its text is non-empty and has no leading or trailing
\* whitespace; a cue without text lines spends no index
IndexContiguousTextTrimmed ==
    (parsePc = "done" /\ ~parsed.threw) =>
        \A icK \in 1..Len(parsed.segments) :
            /\ parsed.segments[icK].index = icK - 1
            /\ parsed.segments[icK].text # <<>>
            /\ Trim(parsed.segments[icK].text) = parsed.segments[icK].text

\* a cue without text was discarded before a cue that was kept, and the kept
\* cue's text comes from a line with surrounding whitespace
DiscardedCueSpendsNoIndex ==
    /\ parsePc = "done"
    /\ ~parsed.threw
    /\ content.type = "string"
    /\ DiscardedCueBeforeKept
    /\ parsed.segments[1].index = 0
    /\ parsedSrc[1].cue > 1
    /\ \E dsL \in 1..Len(parsedSrc[1].lines) :
           Lines[parsedSrc[1].lines[dsL]] # Trim(Lines[parsedSrc[1].lines[dsL]])

\* ---------------------------------------------------------------------------
\* Overlap between consecutive chunks
\* ---------------------------------------------------------------------------

\* the sum of the token estimates of words[from..Len(words)]
RECURSIVE TokensFrom(_, _)
TokensFrom(tfWords, tfFrom) ==
    IF tfFrom > Len(tfWords) THEN 0
    ELSE estimateTokenCount(tfWords[tfFrom]) + TokensFrom(tfWords, tfFrom + 1)

\* the longest suffix of whole words of a text whose estimates sum to at
\* most the budget, joined by single spaces
OverlapTail(otText, otBudget) ==
    LET otWords == SplitWS(otText)
        otFits  == { otFrom \in 1..(Len(otWords) + 1) :
                       TokensFrom(otWords, otFrom) <= otBudget }
        otFirst == MinOf(otFits)
    IN  Join([otK \in 1..(Len(otWords) + 1 - otFirst) |-> otWords[otFirst + otK - 1]],
             <<" ">>)

StartsWith(swText, swPrefix) ==
    /\ Len(swPrefix) <= Len(swText)
    /\ SubSeq(swText, 1, Len(swPrefix)) = swPrefix

\* C22: with config.overlap > 0, every chunk after the first begins with the
\* overlap tail of the chunk before it: the longest suffix of whole words of
\* that chunk's emitted text whose token estimates sum to at most
\* config.overlap.
StartsWithOverlapTail ==
    (chunkPc = "done" /\ config.overlap > 0) =>
        \A soK \in 2..Len(chunks) :
            StartsWith(chunks[soK].text,
                       OverlapTail(chunks[soK - 1].text, config.overlap))

\* ---------------------------------------------------------------------------
\* Ranges of the ranking factors
\* ---------------------------------------------------------------------------

\* 0 <= x <= max for a double x (the doubles of this module are NaN or
\* non-negative)
DWithin(dwX, dwMax) == ~dwX.nan /\ ~DLess(dwMax, dwX)

\* C23: for every candidate, query, toggle setting and current time the
\* recorded factors stay in their documented ranges: recencyBoost in
\* [0, 0.10], metadataMatch in [0, 0.15], codePresence in [0, 0.08],
\* resourceTypeRelevance in [0, 0.12], titleRelevance in [0, 0.10]; candidates
\* created in the future included.
FactorsInDocumentedRanges ==
    Called =>
        \A fdK \in 1..Len(reranked) :
            /\ DWithin(reranked[fdK].rankingFactors.recencyBoost, D01)
            /\ DWithin(reranked[fdK].rankingFactors.metadataMatch, D015)
            /\ DWithin(reranked[fdK].rankingFactors.codePresence, D008)
            /\ DWithin(reranked[fdK].rankingFactors.resourceTypeRelevance, D012)
            /\ DWithin(reranked[fdK].rankingFactors.titleRelevance, D01)

\* ---------------------------------------------------------------------------
\* Code-presence boost
\* ---------------------------------------------------------------------------

\* the number of matches of each pattern family in a text
FamilyMatches(fmText) ==
    [fmK \in 1..Len(codeIndicators) |-> CountMatches(fmText, codeIndicators[fmK], 1)]

\* the number of pattern families that match a text at least once
FamiliesMatched(fmText) ==
    Cardinality({fmK \in 1..Len(codeIndicators) : FamilyMatches(fmText)[fmK] > 0})

\* the sum, in the order of the families, of 0.01 for a family matched once
\* and 0.02 for a family matched twice or more
RECURSIVE FamilySum(_, _)
FamilySum(fsCounts, fsK) ==
    IF fsK = 0 THEN DInt(0)
    ELSE IF fsCounts[fsK] = 0 THEN FamilySum(fsCounts, fsK - 1)
    ELSE DAdd(FamilySum(fsCounts, fsK - 1), IF fsCounts[fsK] = 1 THEN D001 ELSE D002)

TechnicalQuery == SomeIncluded(technicalKeywords, toLowerCase(query))

\* C24: with boostTechnical enabled, codePresence is 0 when the lower-cased
\* query holds no technical keyword, and otherwise min(0.08, 0.01 x the number
\* of pattern families matching the text at least once): several matches of
\* one family count once.
OneHundredthPerFamily ==
    (Called /\ Default(options.boostTechnical)) =>
        \A ohK \in 1..Len(reranked) :
            reranked[ohK].rankingFactors.codePresence =
                IF TechnicalQuery
                THEN DMin(DMulInt(D001, FamiliesMatched(reranked[ohK].text)), D008)
                ELSE DInt(0)

\* C24 as the code has it: with boostTechnical enabled, codePresence is 0 when
\* the lower-cased query holds no technical keyword, and otherwise
\* min(0.08, the sum over the pattern families of min(0.02, 0.01 x the number
\* of matches of the family)): a second match of a family counts, further
\* ones do not.
TwoHundredthsPerFamily ==
    (Called /\ Default(options.boostTechnical)) =>
        \A thK \in 1..Len(reranked) :
            reranked[thK].rankingFactors.codePresence =
                IF TechnicalQuery
                THEN DMin(FamilySum(FamilyMatches(reranked[thK].text),
                                    Len(codeIndicators)), D008)
                ELSE DInt(0)

\* a technical query met a text in which one family matches once and another
\* twice: the boost is 0.03
RepeatedFamilyCountsTwice ==
    /\ Called
    /\ Default(options.boostTechnical)
    /\ TechnicalQuery
    /\ \E rfK \in 1..Len(reranked) :
          /\ reranked[rfK].text = CodeText
          /\ FamilyMatches(CodeText) = <<0, 1, 0, 0, 0, 0, 0, 0, 0, 2>>
          /\ reranked[rfK].rankingFactors.codePresence = DDiv(3, 100)

\* ---------------------------------------------------------------------------
\* Recency boost and age
\* ---------------------------------------------------------------------------

\* the creation time of a returned entry is a date not after the clock
CreatedBy(cbEntry, cbNow) ==
    /\ cbEntry.metadata.created_at.has
    /\ ~DateParse(cbEntry.metadata.created_at.val).nan
    /\ DateParse(cbEntry.metadata.created_at.val).time <= cbNow

\* C25: the recency boost never increases with age: of two creation
\* timestamps not in the future, the older one receives a recencyBoost no
\* larger than the newer one; the flat boost beyond 90 days is the minimum
\* over all ages.
BoostNeverIncreasesWithAge ==
    (Called /\ Default(options.boostRecent)) =>
        \A baK \in 1..Len(reranked) : \A baL \in 1..Len(reranked) :
            (/\ CreatedBy(reranked[baK], now)
             /\ CreatedBy(reranked[baL], now)
             /\ DateParse(reranked[baK].metadata.created_at.val).time
                  <= DateParse(reranked[baL].metadata.created_at.val).time)
            => ~DLess(reranked[baL].rankingFactors.recencyBoost,
                      reranked[baK].rankingFactors.recencyBoost)

\* ---------------------------------------------------------------------------
\* Text kept by chunkVTT
\* ---------------------------------------------------------------------------

\* the words of the texts of a list of records, in order
RECURSIVE WordsOf(_, _)
WordsOf(woList, woK) ==
    IF woK > Len(woList) THEN <<>>
    ELSE LET woWords == SplitWS(Trim(woList[woK].text))
         IN  SelectSeq(woWords, LAMBDA woW : woW # <<>>) \o WordsOf(woList, woK + 1)

\* needle[nI..] is a subsequence of hay[hI..]
RECURSIVE IsSubsequenceFrom(_, _, _, _)
IsSubsequenceFrom(isNeedle, isI, isHay, isH) ==
    IF isI > Len(isNeedle) THEN TRUE
    ELSE IF isH > Len(isHay) THEN FALSE
    ELSE IF isNeedle[isI] = isHay[isH]
    THEN IsSubsequenceFrom(isNeedle, isI + 1, isHay, isH + 1)
    ELSE IsSubsequenceFrom(isNeedle, isI, isHay, isH + 1)

\* C26: for a valid config chunkVTT drops no input text: every word of every
\* non-empty segment appears, in input order, in the text of an emitted chunk,
\* also when a segment that alone exceeds maxTokens arrives while the buffer
\* is empty or while it holds text.
NoInputTextDropped ==
    (chunkPc = "done" /\ ValidConfig(config)) =>
        IsSubsequenceFrom(WordsOf(segments, 1), 1, WordsOf(chunks, 1), 1)

\* ---------------------------------------------------------------------------
\* The fields of the config chunkVTT reads
\* ---------------------------------------------------------------------------

\* configs that agree with a config on maxTokens and overlap
SameLimits(slConfig) ==
    { [slConfig EXCEPT !.minTokens = 1, !.respectBoundaries = ArrayValue(<<>>)],
      [slConfig EXCEPT !.minTokens = slConfig.maxTokens + 1] }

SumOfFactors(sfF) ==
    DAdd(DAdd(DAdd(DAdd(DAdd(sfF.vectorSimilarity, sfF.recencyBoost), sfF.metadataMatch),
                   sfF.codePresence), sfF.resourceTypeRelevance), sfF.titleRelevance)

\* C28: every returned entry has finalScore = min(1.0, vectorSimilarity +
\* recencyBoost + metadataMatch + codePresence + resourceTypeRelevance +
\* titleRelevance) of its own rankingFactors, vectorSimilarity is the input
\* similarity, and a factor whose toggle is false is recorded as 0.
FinalScoreIsCappedSum ==
    Called =>
        \A fsK \in 1..Len(reranked) :
            LET fsF == reranked[fsK].rankingFactors
            IN  /\ reranked[fsK].finalScore = DMin(SumOfFactors(fsF), DInt(1))
                /\ fsF.vectorSimilarity = results[InputPosition(reranked[fsK])].similarity
                /\ ~Default(options.boostRecent) => fsF.recencyBoost = DInt(0)
                /\ ~Default(options.boostTechnical) => fsF.codePresence = DInt(0)
                /\ ~Default(options.boostTitles) => fsF.titleRelevance = DInt(0)

\* a dated candidate that holds code and has a title the query names was
\* scored with the three toggles off: the three factors are 0 and finalScore,
\* below the cap, is the similarity plus the metadata match
ToggledOffAddsNothing ==
    /\ Called
    /\ ~Default(options.boostTitles)
    /\ ~Default(options.boostRecent)
    /\ ~Default(options.boostTechnical)
    /\ TechnicalQuery
    /\ \E tsK \in 1..Len(reranked) :
          /\ reranked[tsK].metadata = RecentLecture
          /\ reranked[tsK].text = CodeText
          /\ reranked[tsK].rankingFactors.recencyBoost = DInt(0)
          /\ DLess(DInt(0), reranked[tsK].rankingFactors.metadataMatch)
          /\ DLess(reranked[tsK].finalScore, DInt(1))
          /\ reranked[tsK].finalScore =
                DAdd(reranked[tsK].similarity, reranked[tsK].rankingFactors.metadataMatch)

(***************************************************************************)
(* Query engine cache (rag/index): getQueryEngine and clearCache           *)
(***************************************************************************)
MaxClears == 1

CacheInit ==
    /\ envSet \in BOOLEAN
    /\ _vectorStore = 0
    /\ _queryEngine = 0
    /\ engineCalls = [ciC \in 1..MaxCalls |-> NotCalled]
    /\ built = [stores |-> 0, engines |-> 0, last |-> 0]
    /\ cleared = 0
    /\ tsIn = NoValue /\ tsSecs = NoValue /\ tsBack = <<>> /\ tsPc = "idle"
    /\ segments = <<>> /\ config = DEFAULT_CHUNKING_CONFIG /\ chunks = <<>>
    /\ chunkSrc = <<>> /\ chunkPc = "idle"
    /\ content = NoContent /\ parsed = NoParse /\ parsedSrc = <<>> /\ parsePc = "idle"
    /\ introSegs = <<>> /\ lectureStart = 0 /\ introKept = <<>>
    /\ introAnalysis = NoAnalysis /\ introPc = "idle"
    /\ RerankIdle
    /\ ValidateIdle
    /\ PipelineIdle

\* the position of call c becomes gqPc, and with it the fields given
Moves(mvC, mvCall) == engineCalls' = [engineCalls EXCEPT ![mvC] = mvCall]

\* getQueryEngine up to its first await: the test of _queryEngine and
\* getVectorStore(), which constructs the store when none is cached and
\* throws when the environment variables are missing
GetQueryEngine(gqC) ==
    /\ engineCalls[gqC].pc = "idle"
    /\ \A gqB \in 1..(gqC - 1) : engineCalls[gqB].pc # "idle"
    /\ IF _queryEngine # 0
       THEN /\ Moves(gqC, [pc |-> "returned", vectorStore |-> 0, value |-> _queryEngine,
                           epoch |-> cleared, settled |-> cleared])
            /\ UNCHANGED <<_vectorStore, built>>
       ELSE IF _vectorStore = 0 /\ ~envSet
       THEN /\ Moves(gqC, [pc |-> "threw", vectorStore |-> 0, value |-> 0,
                           epoch |-> cleared, settled |-> cleared])
            /\ UNCHANGED <<_vectorStore, built>>
       ELSE IF _vectorStore = 0
       THEN /\ _vectorStore' = built.last + 1
            /\ built' = [built EXCEPT !.stores = @ + 1, !.last = @ + 1]
            /\ Moves(gqC, [pc |-> "storageContext", vectorStore |-> built.last + 1,
                           value |-> 0, epoch |-> cleared, settled |-> 0])
       ELSE /\ Moves(gqC, [pc |-> "storageContext", vectorStore |-> _vectorStore,
                           value |-> 0, epoch |-> cleared, settled |-> 0])
            /\ UNCHANGED <<_vectorStore, built>>
    /\ UNCHANGED <<envSet, _queryEngine, cleared>>
    /\ UNCHANGED <<codecVars, chunkVars, parseVars, introVars, rerankVars, validateVars, pipelineVars>>

\* await storageContextFromDefaults({ vectorStore }) resolves; the call goes
\* on to VectorStoreIndex.fromVectorStore(vectorStore)
StorageContextReady(scC) ==
    /\ engineCalls[scC].pc = "storageContext"
    /\ Moves(scC, [engineCalls[scC] EXCEPT !.pc = "index"])
    /\ UNCHANGED <<envSet, _vectorStore, _queryEngine, built, cleared>>
    /\ UNCHANGED <<codecVars, chunkVars, parseVars, introVars, rerankVars, validateVars, pipelineVars>>

\* await VectorStoreIndex.fromVectorStore resolves: _queryEngine is assigned
\* index.asQueryEngine() and returned
IndexReady(irC) ==
    /\ engineCalls[irC].pc = "index"
    /\ _queryEngine' = built.last + 1
    /\ built' = [built EXCEPT !.engines = @ + 1, !.last = @ + 1]
    /\ Moves(irC, [engineCalls[irC] EXCEPT !.pc = "returned", !.value = built.last + 1,
                                           !.settled = cleared])
    /\ UNCHANGED <<envSet, _vectorStore, cleared>>
    /\ UNCHANGED <<codecVars, chunkVars, parseVars, introVars, rerankVars, validateVars, pipelineVars>>

\* one of the awaited promises rejects: the call rejects, the caches stay
Rejected(rjC) ==
    /\ engineCalls[rjC].pc \in {"storageContext", "index"}
    /\ Moves(rjC, [engineCalls[rjC] EXCEPT !.pc = "threw", !.settled = cleared])
    /\ UNCHANGED <<envSet, _vectorStore, _queryEngine, built, cleared>>
    /\ UNCHANGED <<codecVars, chunkVars, parseVars, introVars, rerankVars, validateVars, pipelineVars>>

ClearCache ==
    /\ cleared < MaxClears
    /\ _vectorStore' = 0
    /\ _queryEngine' = 0
    /\ built' = [built EXCEPT !.stores = 0, !.engines = 0]
    /\ cleared' = cleared + 1
    /\ UNCHANGED <<envSet, engineCalls>>
    /\ UNCHANGED <<codecVars, chunkVars, parseVars, introVars, rerankVars, validateVars, pipelineVars>>

CacheNext ==
    \/ \E cnC \in 1..MaxCalls : GetQueryEngine(cnC)
    \/ \E cnC \in 1..MaxCalls : StorageContextReady(cnC)
    \/ \E cnC \in 1..MaxCalls : IndexReady(cnC)
    \/ \E cnC \in 1..MaxCalls : Rejected(cnC)
    \/ ClearCache

SpecCache == CacheInit /\ [][CacheNext]_vars

\* the calls that began and returned with clCount calls of clearCache made
ReturnedWithin(rwCount) ==
    {rwC \in 1..MaxCalls : /\ engineCalls[rwC].pc = "returned"
                           /\ engineCalls[rwC].epoch = rwCount
                           /\ engineCalls[rwC].settled = rwCount}

\* C29: between two calls of clearCache, sequential or overlapping calls of
\* getQueryEngine construct the vector store and the query engine at most
\* once and all return the same engine; after clearCache the next call
\* returns a fresh one.
ConstructedOncePerClear ==
    /\ built.stores <= 1
    /\ built.engines <= 1
    /\ \A coN \in 0..MaxClears :
          \A coC \in ReturnedWithin(coN) : \A coD \in ReturnedWithin(coN) :
              engineCalls[coC].value = engineCalls[coD].value
    /\ \A coC \in ReturnedWithin(1) : \A coD \in ReturnedWithin(0) :
          engineCalls[coC].value # engineCalls[coD].value

(***************************************************************************)
(* Processing pipeline: processVTTFile and the upload route's handler      *)
(***************************************************************************)
batchSize == 50

\* a file without content, a file with a header only, and a file with a cue
PipelineContents ==
    { NoContent,
      StringValue(WEBVTT),
      StringValue(Join(<<WEBVTT, <<>>, Clock(0, 0, 1, 0) \o Arrow \o Clock(0, 0, 4, 0),
                         <<"h", "i">>>>, <<"\n">>)) }

PipelineInit ==
    /\ pipeIn \in [content : PipelineContents, chunkCount : {1, batchSize, batchSize + 1}]
    /\ lecture = Uploaded
    /\ pipePc = "parse"
    /\ pipeI = 0
    /\ caught = ""
    /\ pipeLog = <<>>
    /\ tsIn = NoValue /\ tsSecs = NoValue /\ tsBack = <<>> /\ tsPc = "idle"
    /\ segments = <<>> /\ config = DEFAULT_CHUNKING_CONFIG /\ chunks = <<>>
    /\ chunkSrc = <<>> /\ chunkPc = "idle"
    /\ content = NoContent /\ parsed = NoParse /\ parsedSrc = <<>> /\ parsePc = "idle"
    /\ introSegs = <<>> /\ lectureStart = 0 /\ introKept = <<>>
    /\ introAnalysis = NoAnalysis /\ introPc = "idle"
    /\ RerankIdle
    /\ ValidateIdle
    /\ CacheIdle

\* a step of the try block succeeded: it is logged and the run goes on
Proceeds(pcStep, pcNext) ==
    /\ pipeLog' = Append(pipeLog, pcStep)
    /\ pipePc' = pcNext
    /\ caught' = caught

\* an error is thrown inside the try block: the catch block receives it
Throws(thMessage) ==
    /\ caught' = thMessage
    /\ pipePc' = "catch"
    /\ pipeLog' = pipeLog

\* await updateProcessingProgress(lectureId, stage, progress): the update of
\* the row succeeds or fails, and a failure is swallowed
UpdateProcessingProgress(upStage) ==
    \E upOk \in BOOLEAN :
        lecture' = IF upOk THEN [lecture EXCEPT !.processing_stage = upStage] ELSE lecture

\* step 1: parseVTTWithIntroDetection and the test for segments
ParseStep ==
    /\ pipePc = "parse"
    /\ LET psParsed == parseVTT(pipeIn.content)
       IN  IF psParsed.threw
           THEN Throws("Invalid VTT content: must be a non-empty string") /\ lecture' = lecture
           ELSE IF Len(psParsed.segments) = 0
           THEN Throws("No segments found in VTT file") /\ lecture' = lecture
           ELSE Proceeds("parse", "chunk") /\ UpdateProcessingProgress("parsing")
    /\ UNCHANGED <<pipeIn, pipeI>>
    /\ UNCHANGED <<codecVars, chunkVars, parseVars, introVars, rerankVars, validateVars, cacheVars>>

\* step 2: chunkVTT of the lecture segments; a list of segments with text
\* gives at least one chunk, pipeIn.chunkCount of them here
ChunkStep ==
    /\ pipePc = "chunk"
    /\ IF pipeIn.chunkCount = 0
       THEN Throws("No chunks created from lecture content") /\ lecture' = lecture
       ELSE Proceeds("chunk", "embed") /\ UpdateProcessingProgress("chunking")
    /\ UNCHANGED <<pipeIn, pipeI>>
    /\ UNCHANGED <<codecVars, chunkVars, parseVars, introVars, rerankVars, validateVars, cacheVars>>

\* step 3: generateEmbeddingsBatch resolves or rejects
EmbedStep ==
    /\ pipePc = "embed"
    /\ \/ Proceeds("embed", "cohort") /\ UpdateProcessingProgress("storing")
       \/ Throws("embedding request failed") /\ lecture' = lecture
    /\ UNCHANGED <<pipeIn, pipeI>>
    /\ UNCHANGED <<codecVars, chunkVars, parseVars, introVars, rerankVars, validateVars, cacheVars>>

\* step 4, the rows to insert: getCohortId returns the cohort or throws
CohortStep ==
    /\ pipePc = "cohort"
    /\ \/ pipePc' = "insert" /\ caught' = caught /\ pipeLog' = pipeLog
       \/ Throws("Failed to get cohort ID for lecture")
    /\ pipeI' = 0
    /\ UNCHANGED <<pipeIn, lecture>>
    /\ UNCHANGED <<codecVars, chunkVars, parseVars, introVars, rerankVars, validateVars, cacheVars>>

\* step 4, one turn of the insert loop: the batch from i is inserted, or
\* the insert returns an error
InsertBatch ==
    /\ pipePc = "insert"
    /\ pipeI < pipeIn.chunkCount
    /\ \/ Proceeds("insert", "insert") /\ pipeI' = pipeI + batchSize
       \/ Throws("Failed to insert chunk batch") /\ pipeI' = pipeI
    /\ UNCHANGED <<pipeIn, lecture>>
    /\ UNCHANGED <<codecVars, chunkVars, parseVars, introVars, rerankVars, validateVars, cacheVars>>

\* the insert loop is over; step 5: generateLectureSummary resolves or rejects
SummaryStep ==
    /\ pipePc = "insert"
    /\ ~(pipeI < pipeIn.chunkCount)
    /\ UpdateProcessingProgress("summarizing")
    /\ \/ Proceeds("summary", "finalize")
       \/ Throws("summary generation failed")
    /\ UNCHANGED <<pipeIn, pipeI>>
    /\ UNCHANGED <<codecVars, chunkVars, parseVars, introVars, rerankVars, validateVars, cacheVars>>

\* step 6: the update that marks the lecture completed succeeds, or returns
\* an error that is thrown
Finalize ==
    /\ pipePc = "finalize"
    /\ \/ /\ lecture' = [lecture EXCEPT !.status = "completed"]
          /\ Proceeds("completed", "resolved")
       \/ /\ lecture' = lecture
          /\ Throws("Failed to update lecture record")
    /\ UNCHANGED <<pipeIn, pipeI>>
    /\ UNCHANGED <<codecVars, chunkVars, parseVars, introVars, rerankVars, validateVars, cacheVars>>

\* the catch block: the update that marks the lecture failed is awaited, its
\* result is not looked at, and the error is thrown again
Catch ==
    /\ pipePc = "catch"
    /\ \/ /\ lecture' = [lecture EXCEPT !.status = "failed", !.error_message = caught]
          /\ pipeLog' = Append(pipeLog, "failed")
       \/ /\ lecture' = lecture
          /\ pipeLog' = pipeLog
    /\ pipePc' = "rejected"
    /\ UNCHANGED <<pipeIn, pipeI, caught>>
    /\ UNCHANGED <<codecVars, chunkVars, parseVars, introVars, rerankVars, validateVars, cacheVars>>

\* the catch handler of the upload route: it builds the same update and
\* neither awaits nor checks it, so the row is updated or not
RouteCatch ==
    /\ pipePc = "rejected"
    /\ \/ /\ lecture' = [lecture EXCEPT !.status = "failed", !.error_message = caught]
          /\ pipeLog' = Append(pipeLog, "failed")
       \/ /\ lecture' = lecture
          /\ pipeLog' = pipeLog
    /\ pipePc' = "handled"
    /\ UNCHANGED <<pipeIn, pipeI, caught>>
    /\ UNCHANGED <<codecVars, chunkVars, parseVars, introVars, rerankVars, validateVars, cacheVars>>

PipelineNext ==
    \/ ParseStep
    \/ ChunkStep
    \/ EmbedStep
    \/ CohortStep
    \/ InsertBatch
    \/ SummaryStep
    \/ Finalize
    \/ Catch
    \/ RouteCatch

SpecPipeline == PipelineInit /\ [][PipelineNext]_vars

\* the steps of a run that completed: parse, chunk, embed, one insert per
\* batch, summary, and the write of 'completed'
AllStepsInOrder ==
    <<"parse", "chunk", "embed">>
    \o [asK \in 1..((pipeIn.chunkCount + batchSize - 1) \div batchSize) |-> "insert"]
    \o <<"summary", "completed">>

Written(wrStatus) == \E wrK \in 1..Len(pipeLog) : pipeLog[wrK] = wrStatus

\* C30: every run of processVTTFile ends in exactly one terminal outcome:
\* 'completed' is written only after parsing, chunking, embedding, the insert
\* of every batch and the summary succeeded, in that order; if a step fails
\* the status is written as 'failed' with the error message and the promise
\* rejects; a run never writes both.
OneTerminalOutcome ==
    /\ ~(Written("completed") /\ Written("failed"))
    /\ pipePc = "resolved" =>
          /\ lecture.status = "completed"
          /\ pipeLog = AllStepsInOrder
    /\ pipePc = "rejected" =>
          /\ lecture.status = "failed"
          /\ lecture.error_message = caught

====
